---- MODULE Spec2Model ----
(***************************************************************************)
(* Credential + cache-registry coordination of siperak-backend:            *)
(* token guards (TokenMiddlewares), the auth handlers (AuthHandlers), the  *)
(* registry helpers over memcached (MemcachedHelpers) and the session      *)
(* invalidation run by deleteUser (UserHandlers).                          *)
(*                                                                         *)
(* Requests run concurrently in MaxReq slots.  A handler step is the code  *)
(* between two awaited cache calls; cache calls that the code does not     *)
(* await (memcached.x(...).catch(...)) are put in `inflight` and reach the *)
(* cache later, in any order.  A request is settled when its handler has   *)
(* responded and none of its calls is in flight.                           *)
(*                                                                         *)
(* Spec serves requests concurrently; SpecSerial serves one request at a   *)
(* time, with every header variant, and also requests a route behind       *)
(* checkAccessToken.                                                       *)
(***************************************************************************)
EXTENDS Integers, Sequences, FiniteSets, TLC

VARIABLES
  cache,     \* the memcached server: key -> [val, exp]
  minted,    \* every token jwt.sign has produced -> its signed payload
  now,       \* the clock, in seconds
  req,       \* the request served in each slot
  inflight,  \* cache calls issued and not awaited, not yet answered
  faults,    \* number of cache calls that failed with an internal error
  issued,    \* tokens returned to a client in a 200 response
  expelled,  \* tokens issued to u before a settled invalidation of u's sessions
  revoked,   \* members of the session lists those invalidations read
  handed,    \* anti-forgery token -> the key, cookie and refresh token tied to it
  hdr,       \* the anti-forgery cookie and headers of the request in each slot
  db,        \* the relational store: the number of writes to the user table
  acked,     \* the latest of those writes whose handler has responded
  qry,       \* the list query or the write served in each slot
  users,     \* the user table: id -> row
  tx         \* the transaction table: id -> row with its product lines

vars == <<cache, minted, now, req, inflight, faults, issued, expelled, revoked,
          handed, hdr, db, acked, qry, users, tx>>

\* the state of the anti-forgery handshake
csrfVars == <<handed, hdr>>

\* the state of the user table and of the requests to it
queryVars == <<db, acked, qry>>

\* the tables that the user and transaction handlers write
storeVars == <<users, tx>>

----------------------------------------------------------------------------
\* Bounds of the model.
MaxReq == 2
MaxTokens == 3
MaxFaults == 1

Reqs == 1..MaxReq
Users == {"u1", "u2"}

\* the ids prisma gives to transactions
TxIds == {"t1"}

\* a row of the transaction table that is not there yet; lines are the rows
\* of products_on_transactions that belong to it
NoTransaction ==
  [there |-> FALSE, lines |-> {}, total |-> 0, tax |-> 0, dpp |-> 0, ver |-> 0]

\* the user table as seeded: one admin.  ver is the number of the write that
\* made the row, acked the latest write to it whose handler has responded
SeedUsers ==
  [u \in Users |->
     [there |-> TRUE, role |-> IF u = "u1" THEN "ADMIN" ELSE "USER",
      ver |-> 0, acked |-> 0]]

----------------------------------------------------------------------------
\* Configuration.

\* cacheDuration.super / .medium / .short, in seconds
DurationSuper == 604800
DurationMedium == 1800
DurationShort == 300

\* accessTokenConfig.expiresIn = "30m", refreshTokenConfig.expiresIn = "7d"
AccessLife == 1800
RefreshLife == 604800

\* the session cap the specification describes (its scenario uses 1)
maxConcurrentSessions == 1

ACCESS_TOKEN_SECRET == "super secret access token"
REFRESH_TOKEN_SECRET == "super secret refresh token"

\* one secret for both kinds of token
JwtSecretShared(tokenType) == ACCESS_TOKEN_SECRET

JwtSecret(tokenType) ==
  IF tokenType = "ACCESS_TOKEN" THEN ACCESS_TOKEN_SECRET ELSE REFRESH_TOKEN_SECRET

\* accessTokenConfig.algorithm, refreshTokenConfig.algorithm
JwtAlgorithm(tokenType) == IF tokenType = "ACCESS_TOKEN" THEN "HS256" ELSE "HS512"

\* the algorithms jwt.verify accepts: verify is handed the sign options, which
\* have no `algorithms`, so jsonwebtoken accepts every HMAC algorithm for a
\* secret that is a string
JwtVerifyAlgorithms(tokenType) == {"HS256", "HS384", "HS512"}

JwtLife(tokenType) ==
  IF tokenType = "ACCESS_TOKEN" THEN AccessLife ELSE RefreshLife

AuthErrorMessages ==
  [REFRESH_TOKEN_NOT_VALID_MESSAGE |-> "valid refresh token not supplied",
   REFRESH_TOKEN_EXPIRED |-> "refresh token expired",
   ACCESS_TOKEN_NOT_VALID_MESSAGE |-> "valid access token not supplied",
   ACCESS_TOKEN_EXPIRED |-> "access token expired, please refresh access token"]

\* queryKeys.session(userId)
SessionField(userId) == "session:" \o userId

\* the cache key `user:${user.id}` of a user's profile
UserKey(userId) == "user:" \o userId

\* the cache key `${field}:queries` under which a group's member list lives
GroupKey(field) == field \o ":queries"

----------------------------------------------------------------------------
\* Credential codec (jwtPromisified).

\* the token string jwt.sign returns; the random hash makes every one unique
TokenName(tokenType, nonce) ==
  (IF tokenType = "ACCESS_TOKEN" THEN "at" ELSE "rt") \o ToString(nonce)

NextNonce == Cardinality(DOMAIN minted) + 1

\* the role column of the user table
Role(userId) == users[userId].role

\* userSafeSchema.parse(user): the row of the user without its password
SafeUserData(userId) ==
  [id |-> userId, email |-> userId \o "@mail", name |-> userId, role |-> Role(userId)]

\* createHash("sha256").update(randomData).digest("hex") of fresh random bytes
RandomHash(nonce) == "hash" \o ToString(nonce)

\* a sign that adds an empty randomHash
SignPayloadNoNonce(tokenType, initialPayload) ==
  [kind |-> tokenType, secret |-> JwtSecret(tokenType),
   alg |-> JwtAlgorithm(tokenType),
   sub |-> initialPayload.id, email |-> initialPayload.email,
   name |-> initialPayload.name, role |-> initialPayload.role,
   randomHash |-> "",
   iat |-> now, exp |-> now + JwtLife(tokenType)]

\* jwtPromisified.sign: the header choices and the signed payload of the new
\* token, `{...initialPayload, randomHash}` with the iat and exp jwt.sign adds;
\* sub is the id field of the payload
SignPayload(tokenType, initialPayload) ==
  [kind |-> tokenType, secret |-> JwtSecret(tokenType),
   alg |-> JwtAlgorithm(tokenType),
   sub |-> initialPayload.id, email |-> initialPayload.email,
   name |-> initialPayload.name, role |-> initialPayload.role,
   randomHash |-> RandomHash(NextNonce),
   iat |-> now, exp |-> now + JwtLife(tokenType)]

\* a verification that ignores the exp claim
JwtVerifyNoExpiry(tokenType, token) ==
  IF token \notin DOMAIN minted THEN "JsonWebTokenError"
  ELSE IF minted[token].alg \notin JwtVerifyAlgorithms(tokenType) THEN "JsonWebTokenError"
  ELSE IF minted[token].secret # JwtSecret(tokenType) THEN "JsonWebTokenError"
  ELSE "ok"

\* jwtPromisified.verify: "ok", or the error jsonwebtoken raises
JwtVerify(tokenType, token) ==
  IF token \notin DOMAIN minted THEN "JsonWebTokenError"
  ELSE IF minted[token].alg \notin JwtVerifyAlgorithms(tokenType) THEN "JsonWebTokenError"
  ELSE IF minted[token].secret # JwtSecret(tokenType) THEN "JsonWebTokenError"
  ELSE IF now >= minted[token].exp THEN "TokenExpiredError"
  ELSE "ok"

\* the payload jwt.verify and jwt.decode hand back for a token
JwtPayloadOf(token) ==
  [id |-> minted[token].sub, email |-> minted[token].email,
   name |-> minted[token].name, role |-> minted[token].role,
   randomHash |-> minted[token].randomHash,
   iat |-> minted[token].iat, exp |-> minted[token].exp]

\* jwtPromisified.verify: the payload it resolves with, or the error it
\* rejects with
JwtVerifyPayload(tokenType, token) ==
  IF JwtVerify(tokenType, token) = "ok" THEN JwtPayloadOf(token)
  ELSE [error |-> JwtVerify(tokenType, token)]

\* jwtPromisified.decode: the payload, without verification
JwtDecode(token) == JwtPayloadOf(token)

\* `const { id, email, name, role } = await jwtPromisified.decode(refreshToken)`
DecodedUserData(token) ==
  [id |-> JwtDecode(token).id, email |-> JwtDecode(token).email,
   name |-> JwtDecode(token).name, role |-> JwtDecode(token).role]

\* jwtPromisified.decode: the id claim, without verification
JwtDecodeId(token) == JwtDecode(token).id

Tokens(tokenType) == {t \in DOMAIN minted : minted[t].kind = tokenType}

----------------------------------------------------------------------------
\* Cache client (memcached.get / set / del) and the cache server's expiry.

CacheHit(key) == key \in DOMAIN cache /\ now < cache[key].exp

\* message of memcached.get: resolved "cache hit", or the rejection's message
MemGet(key, up) ==
  IF ~up THEN "internal error"
  ELSE IF CacheHit(key) THEN "cache hit"
  ELSE "cache miss"

CacheSet(c, key, value, lifetime) ==
  [k \in DOMAIN c \cup {key} |->
     IF k = key THEN [val |-> value, exp |-> now + lifetime] ELSE c[k]]

\* a delete that leaves the entry where it is
CacheDelNothing(c, key) == c

CacheDel(c, key) == [k \in DOMAIN c \ {key} |-> c[k]]

\* a touch that leaves the entry as it is
CacheTouchNothing(c, key, lifetime) == c

\* memcached.touch: the entry of key lives for lifetime from now on
CacheTouch(c, key, lifetime) ==
  IF key \in DOMAIN c /\ now < c[key].exp
  THEN [c EXCEPT ![key].exp = now + lifetime]
  ELSE c

\* whether the next cache call answers (TRUE) or fails with an internal error
FaultChoices == IF faults < MaxFaults THEN {TRUE, FALSE} ELSE {TRUE}

CountFault(up) == faults' = IF up THEN faults ELSE faults + 1

\* a cache call the handler does not await
Call(r, op, key, value, lifetime) ==
  [rid |-> r, op |-> op, key |-> key, val |-> value, ttl |-> lifetime]

NoValue == <<>>

InflightOf(r) == {o \in inflight : o.rid = r}

----------------------------------------------------------------------------
\* Registry helpers (MemcachedHelpers).

\* getCachedQueryKeys: the parsed list; a miss or an error reads as "[]"
GetCachedQueryKeys(field, up) ==
  IF MemGet(GroupKey(field), up) = "cache hit" THEN cache[GroupKey(field)].val ELSE <<>>

\* the strings in a parsed list
Members(list) == {list[i] : i \in 1..Len(list)}

\* a registration that writes the list back as it read it
RegisterWithoutPush(r, field, cacheKey, up) ==
  {Call(r, "set", GroupKey(field), GetCachedQueryKeys(field, up), DurationSuper)}

\* registerCachedQueryKey: read the list, push, write back without awaiting
RegisterCachedQueryKey(r, field, cacheKey, up) ==
  {Call(r, "set", GroupKey(field), Append(GetCachedQueryKeys(field, up), cacheKey),
        DurationSuper)}

\* an invalidation that deletes the list and leaves its members
InvalidateGroupKeyOnly(r, field, up) ==
  IF MemGet(GroupKey(field), up) # "cache hit" THEN {}
  ELSE {Call(r, "del", GroupKey(field), NoValue, 0)}

\* invalidateCachedQueries: the deletes it issues (none on miss, error or "[]")
InvalidateCachedQueries(r, field, up) ==
  IF MemGet(GroupKey(field), up) # "cache hit" THEN {}
  ELSE LET arr == cache[GroupKey(field)].val IN
       IF Len(arr) < 1 THEN {}
       ELSE {Call(r, "del", arr[i], NoValue, 0) : i \in 1..Len(arr)}
            \cup {Call(r, "del", GroupKey(field), NoValue, 0)}

----------------------------------------------------------------------------
\* Requests.

Undefined == "<undefined>"
NoAuth == [present |-> FALSE, words |-> <<>>]

IdleReq ==
  [op |-> "idle", pc |-> "idle", sub |-> Undefined, rt |-> Undefined,
   at |-> Undefined, form |-> "-", vres |-> "-", res |-> "-", lres |-> "-",
   listed |-> FALSE, role |-> "-", old |-> Undefined,
   err |-> <<>>, body |-> <<>>, log |-> <<>>, outs |-> <<>>,
   ran |-> FALSE, status |-> 0, msg |-> "-", fault |-> FALSE, snap |-> {}, read |-> {}]

\* slot r takes the next request: the lowest slot that is idle
Free(r) ==
  /\ req[r].pc = "idle"
  /\ \A q \in Reqs : q < r => req[q].pc # "idle"

\* no request is being served
Quiet == inflight = {} /\ \A r \in Reqs : req[r].pc = "idle"

Respond(rec, status, msg) == [rec EXCEPT !.pc = "done", !.status = status, !.msg = msg]

\* errorHandler: the message it answers for an error of the given class.
\* isErrnoException holds for every instance of Error that has no errno,
\* code, path or syscall of another type, so for a plain Error or TypeError;
\* the last fallback is left to values that are no Error at all.
ErrorHandlerMessage(error) ==
  IF error = "ZodError" THEN "internal zod error"
  ELSE IF error = "MemcachedMethodError" THEN "internal memcached error"
  ELSE IF error = "PrismaError" THEN "internal prisma error"
  ELSE IF error \in {"JsonWebTokenError", "TokenExpiredError"}
    THEN "internal jwt processing error"
  ELSE IF error = "ERR_CRYPTO" THEN "internal nodejs crypto error"
  ELSE IF error \in {"Error", "TypeError", "ErrnoException"} THEN "internal nodejs error"
  ELSE "unknown internal error"

\* whether errorHandler logs the error as a known one
ErrorHandlerKnown(error) ==
  error \in {"ZodError", "MemcachedMethodError", "PrismaError", "JsonWebTokenError",
             "TokenExpiredError", "ERR_CRYPTO"}

\* a response body that carries the error object along
ErrorBodyWithErrors(error) ==
  [status |-> "error", message |-> ErrorHandlerMessage(error.class),
   errors |-> <<error>>]

\* errorHandler: the body it hands to res.json for the error object
ErrorBody(error) ==
  [status |-> "error", message |-> ErrorHandlerMessage(error.class)]

\* logError(location, error, known): the line written to the console
LogError(location, error, known) ==
  [time |-> now, location |-> location, known |-> known, error |-> error]

\* errorHandler: every error passed to next(error) is answered with 500
ErrorHandler(rec, error) == Respond(rec, 500, ErrorHandlerMessage(error))

\* a slot that serves no request to the user table
NoQuery == [key |-> Undefined, since |-> 0, served |-> 0, from |-> "-"]

\* a request without anti-forgery cookie, x-csrf-token and refresh cookie
NoHeaders == [cookie |-> Undefined, csrfToken |-> Undefined, refreshToken |-> Undefined]

----------------------------------------------------------------------------
Init ==
  /\ cache = <<>>
  /\ minted = <<>>
  /\ now = 0
  /\ req = [r \in Reqs |-> IdleReq]
  /\ inflight = {}
  /\ faults = 0
  /\ issued = {}
  /\ expelled = {}
  /\ revoked = {}
  /\ handed = <<>>
  /\ hdr = [r \in Reqs |-> NoHeaders]
  /\ db = 0
  /\ acked = 0
  /\ qry = [r \in Reqs |-> NoQuery]
  /\ users = SeedUsers
  /\ tx = [id \in TxIds |-> NoTransaction]

----------------------------------------------------------------------------
\* login (valid email and password of user u).

\* up to `await memcached.set(refreshToken, user.id, cacheDuration.super)`;
\* the two writes of the user's profile are not awaited, and are the same
LoginStart(r, u) ==
  /\ Free(r)
  /\ NextNonce <= MaxTokens
  /\ \E up \in FaultChoices :
       LET refreshToken == TokenName("REFRESH_TOKEN", NextNonce)
           rec == [IdleReq EXCEPT !.op = "login", !.sub = u, !.rt = refreshToken]
       IN /\ minted' = (refreshToken :> SignPayload("REFRESH_TOKEN", SafeUserData(u))) @@ minted
          /\ inflight' = inflight \cup {Call(r, "set", UserKey(u), <<"profile", u>>, DurationShort)}
          /\ CountFault(up)
          /\ IF up
             THEN /\ cache' = CacheSet(cache, refreshToken, u, DurationSuper)
                  /\ req' = [req EXCEPT ![r] = [rec EXCEPT !.pc = "register"]]
             ELSE /\ cache' = cache
                  /\ req' = [req EXCEPT ![r] =
                               ErrorHandler([rec EXCEPT !.fault = TRUE], "MemcachedMethodError")]
  /\ UNCHANGED <<now, issued, expelled, revoked>>

\* the registration of the new session in the user's session group
LoginRegisterSession(r) ==
  /\ req[r].op = "login" /\ req[r].pc = "register"
  /\ \E up \in FaultChoices :
       /\ inflight' = inflight \cup
            RegisterCachedQueryKey(r, SessionField(req[r].sub), req[r].rt, up)
       /\ CountFault(up)
       /\ req' = [req EXCEPT ![r].pc = "access", ![r].fault = @ \/ ~up]
  /\ UNCHANGED <<cache, minted, now, issued, expelled, revoked>>

\* the lifetime login gives the access token's cache entry
LoginAccessLifetime == DurationSuper

\* a login that does not wait for the write of the access token's entry
LoginFinishNotAwaited(r) ==
  /\ req[r].op = "login" /\ req[r].pc = "access"
  /\ NextNonce <= MaxTokens
  /\ LET accessToken == TokenName("ACCESS_TOKEN", NextNonce) IN
     /\ minted' = (accessToken :> SignPayload("ACCESS_TOKEN", SafeUserData(req[r].sub))) @@ minted
     /\ inflight' = inflight \cup
          {Call(r, "set", accessToken, req[r].sub, LoginAccessLifetime)}
     /\ req' = [req EXCEPT ![r] =
                  Respond([@ EXCEPT !.at = accessToken], 200, "logged in")]
     /\ issued' = issued \cup {req[r].rt, accessToken}
  /\ UNCHANGED <<cache, now, faults, expelled, revoked>>

\* from `jwtPromisified.sign("ACCESS_TOKEN", ...)` to the response
LoginFinish(r) ==
  /\ req[r].op = "login" /\ req[r].pc = "access"
  /\ NextNonce <= MaxTokens
  /\ \E up \in FaultChoices :
       LET accessToken == TokenName("ACCESS_TOKEN", NextNonce) IN
       /\ minted' = (accessToken :> SignPayload("ACCESS_TOKEN", SafeUserData(req[r].sub))) @@ minted
       /\ CountFault(up)
       /\ IF up
          THEN /\ cache' = CacheSet(cache, accessToken, req[r].sub, LoginAccessLifetime)
               /\ req' = [req EXCEPT ![r] =
                            Respond([@ EXCEPT !.at = accessToken], 200, "logged in")]
               /\ issued' = issued \cup {req[r].rt, accessToken}
          ELSE /\ cache' = cache
               /\ req' = [req EXCEPT ![r] =
                            ErrorHandler([@ EXCEPT !.fault = TRUE], "MemcachedMethodError")]
               /\ issued' = issued
  /\ UNCHANGED <<now, inflight, expelled, revoked>>

----------------------------------------------------------------------------
\* Request headers.

Schemes == {"Bearer", "bearer", "Basic"}

\* String.prototype.toLowerCase on the scheme words above
ToLowerCase(word) ==
  IF word = "Bearer" \/ word = "BEARER" THEN "bearer"
  ELSE IF word = "Basic" THEN "basic"
  ELSE word

\* what a client can put in a credential header: a token that was signed,
\* or any other string
Creds == DOMAIN minted \cup {"junk"}

\* the authorization header, split(" ")
AuthHeader(ws) == [present |-> TRUE, words |-> ws]

AuthInputs ==
  {NoAuth, AuthHeader(<<"Bearer">>), AuthHeader(<<"junk">>)}
    \cup {AuthHeader(<<s, c>>) : s \in Schemes, c \in Creds}

XrtInputs == {Undefined} \cup Creds

\* the authorization header sent along with a refresh or a logout
OldAccessInputs ==
  {NoAuth, AuthHeader(<<"Bearer">>)}
    \cup {AuthHeader(<<"Bearer", c>>) : c \in Tokens("ACCESS_TOKEN")}

\* the authorization header sent along with a refresh: refresh takes its
\* second word for the old access token, whatever it is
RefreshAuthInputs ==
  OldAccessInputs
    \cup {AuthHeader(<<"Bearer", c>>) : c \in Tokens("REFRESH_TOKEN")}
    \cup {AuthHeader(<<"Bearer", GroupKey(SessionField(u))>>) : u \in Users}

\* the x-refresh-token header sent to logout
LogoutXrtInputs ==
  {Undefined} \cup Tokens("REFRESH_TOKEN") \cup {GroupKey(SessionField(u)) : u \in Users}

\* errors thrown inside a guard's try block
Error(message) == [class |-> "Error", message |-> message]
JwtError(class) == [class |-> class, message |-> "jwt error"]
MemcachedMethodError(message) == [class |-> "MemcachedMethodError", message |-> message]
NoError == [class |-> "-", message |-> "-"]

----------------------------------------------------------------------------
\* checkAccessToken.

\* the try block without the lookup in the cache
AccessTryNoCache(auth, up) ==
  IF ~auth.present THEN Error(AuthErrorMessages.ACCESS_TOKEN_NOT_VALID_MESSAGE)
  ELSE IF ToLowerCase(auth.words[1]) # "bearer"
    THEN Error(AuthErrorMessages.ACCESS_TOKEN_NOT_VALID_MESSAGE)
  ELSE IF Len(auth.words) < 2
    THEN Error(AuthErrorMessages.ACCESS_TOKEN_NOT_VALID_MESSAGE)
  ELSE IF JwtVerify("ACCESS_TOKEN", auth.words[2]) # "ok"
    THEN JwtError(JwtVerify("ACCESS_TOKEN", auth.words[2]))
  ELSE NoError

\* the try block with a failed lookup taken for an answer
AccessTryFailOpen(auth, up) ==
  IF ~auth.present THEN Error(AuthErrorMessages.ACCESS_TOKEN_NOT_VALID_MESSAGE)
  ELSE IF ToLowerCase(auth.words[1]) # "bearer"
    THEN Error(AuthErrorMessages.ACCESS_TOKEN_NOT_VALID_MESSAGE)
  ELSE IF Len(auth.words) < 2
    THEN Error(AuthErrorMessages.ACCESS_TOKEN_NOT_VALID_MESSAGE)
  ELSE IF JwtVerify("ACCESS_TOKEN", auth.words[2]) # "ok"
    THEN JwtError(JwtVerify("ACCESS_TOKEN", auth.words[2]))
  ELSE IF MemGet(auth.words[2], up) = "cache miss"
    THEN MemcachedMethodError(MemGet(auth.words[2], up))
  ELSE NoError

\* the try block: the error thrown, or NoError when next() is reached
AccessTry(auth, up) ==
  IF ~auth.present THEN Error(AuthErrorMessages.ACCESS_TOKEN_NOT_VALID_MESSAGE)
  ELSE IF ToLowerCase(auth.words[1]) # "bearer"
    THEN Error(AuthErrorMessages.ACCESS_TOKEN_NOT_VALID_MESSAGE)
  ELSE IF Len(auth.words) < 2
    THEN Error(AuthErrorMessages.ACCESS_TOKEN_NOT_VALID_MESSAGE)
  ELSE IF JwtVerify("ACCESS_TOKEN", auth.words[2]) # "ok"
    THEN JwtError(JwtVerify("ACCESS_TOKEN", auth.words[2]))
  ELSE IF MemGet(auth.words[2], up) # "cache hit"
    THEN MemcachedMethodError(MemGet(auth.words[2], up))
  ELSE NoError

\* whether the try block reaches memcached.get
AccessReachesGet(auth) ==
  /\ auth.present
  /\ ToLowerCase(auth.words[1]) = "bearer"
  /\ Len(auth.words) >= 2
  /\ JwtVerify("ACCESS_TOKEN", auth.words[2]) = "ok"

\* a catch block that tests for JsonWebTokenError first; TokenExpiredError is
\* a subclass of it
AccessCatchInvalidFirst(error) ==
  IF \/ error.message = AuthErrorMessages.ACCESS_TOKEN_NOT_VALID_MESSAGE
     \/ error.class \in {"JsonWebTokenError", "TokenExpiredError"}
    THEN [status |-> 401, msg |-> AuthErrorMessages.ACCESS_TOKEN_NOT_VALID_MESSAGE,
          ran |-> FALSE]
  ELSE IF \/ error.message = AuthErrorMessages.ACCESS_TOKEN_EXPIRED
          \/ (error.class = "MemcachedMethodError" /\ error.message = "cache miss")
    THEN [status |-> 401, msg |-> AuthErrorMessages.ACCESS_TOKEN_EXPIRED, ran |-> FALSE]
  ELSE [status |-> 500, msg |-> ErrorHandlerMessage(error.class), ran |-> FALSE]

\* the catch block: the response sent, or next(error)
AccessCatch(error) ==
  IF \/ error.message = AuthErrorMessages.ACCESS_TOKEN_EXPIRED
     \/ (error.class = "MemcachedMethodError" /\ error.message = "cache miss")
     \/ error.class = "TokenExpiredError"
    THEN [status |-> 401, msg |-> AuthErrorMessages.ACCESS_TOKEN_EXPIRED, ran |-> FALSE]
  ELSE IF \/ error.message = AuthErrorMessages.ACCESS_TOKEN_NOT_VALID_MESSAGE
          \/ error.class = "JsonWebTokenError"
    THEN [status |-> 401, msg |-> AuthErrorMessages.ACCESS_TOKEN_NOT_VALID_MESSAGE,
          ran |-> FALSE]
  ELSE [status |-> 500, msg |-> ErrorHandlerMessage(error.class), ran |-> FALSE]

\* what checkAccessToken ends with, in order: next(), a response, or
\* next(error)
AccessOutcomes(error) ==
  IF error = NoError THEN <<"next">>
  ELSE IF \/ error.message = AuthErrorMessages.ACCESS_TOKEN_EXPIRED
          \/ (error.class = "MemcachedMethodError" /\ error.message = "cache miss")
          \/ error.class = "TokenExpiredError"
    THEN <<"response">>
  ELSE IF \/ error.message = AuthErrorMessages.ACCESS_TOKEN_NOT_VALID_MESSAGE
          \/ error.class = "JsonWebTokenError"
    THEN <<"response">>
  ELSE <<"next(error)">>

\* the outcome of checkAccessToken: next() lets the protected handler run
\* (it answers 200)
CheckAccessToken(auth, up) ==
  IF AccessTry(auth, up) = NoError
  THEN [status |-> 200, msg |-> "ok", ran |-> TRUE]
  ELSE AccessCatch(AccessTry(auth, up))

\* whether the header has the form "Bearer <token>"
BearerForm(auth) ==
  auth.present /\ ToLowerCase(auth.words[1]) = "bearer" /\ Len(auth.words) >= 2

\* A request to a route protected by checkAccessToken.
Protected(r, auth) ==
  /\ Free(r)
  /\ \E up \in FaultChoices :
       /\ up \/ AccessReachesGet(auth)
       /\ CountFault(up)
       /\ LET answer == CheckAccessToken(auth, up)
              rec == [IdleReq EXCEPT !.op = "protected",
                        !.at = IF BearerForm(auth) THEN auth.words[2] ELSE Undefined,
                        !.form = IF BearerForm(auth) THEN "bearer" ELSE "other",
                        !.vres = IF BearerForm(auth)
                                 THEN JwtVerify("ACCESS_TOKEN", auth.words[2]) ELSE "-",
                        !.res = IF AccessReachesGet(auth)
                                THEN MemGet(auth.words[2], up) ELSE "-",
                        !.outs = <<AccessOutcomes(AccessTry(auth, up))>>,
                        !.ran = answer.ran, !.fault = ~up]
          IN req' = [req EXCEPT ![r] = Respond(rec, answer.status, answer.msg)]
  /\ UNCHANGED <<cache, minted, now, inflight, issued, expelled, revoked>>

----------------------------------------------------------------------------
\* checkAdmin, and the routes of userRouters behind it.

AdminErrorMessage == "admin role needed to perform this task"

\* a checkAdmin that does not look at the role
CheckAdminAnyRole(auth) ==
  IF ~auth.present
    THEN [status |-> 401, msg |-> AuthErrorMessages.ACCESS_TOKEN_NOT_VALID_MESSAGE,
          ran |-> FALSE]
  ELSE IF Len(auth.words) # 2
    THEN [status |-> 401, msg |-> AuthErrorMessages.ACCESS_TOKEN_NOT_VALID_MESSAGE,
          ran |-> FALSE]
  ELSE IF auth.words[2] \notin DOMAIN minted
    THEN [status |-> 500, msg |-> ErrorHandlerMessage("TypeError"), ran |-> FALSE]
  ELSE [status |-> 200, msg |-> "ok", ran |-> TRUE]

\* checkAdmin: next() lets the handler run (it answers 200); a token that
\* jwt.decode cannot read makes the destructuring throw, which goes to
\* next(error)
CheckAdmin(auth) ==
  IF ~auth.present
    THEN [status |-> 401, msg |-> AuthErrorMessages.ACCESS_TOKEN_NOT_VALID_MESSAGE,
          ran |-> FALSE]
  ELSE IF Len(auth.words) # 2
    THEN [status |-> 401, msg |-> AuthErrorMessages.ACCESS_TOKEN_NOT_VALID_MESSAGE,
          ran |-> FALSE]
  ELSE IF auth.words[2] \notin DOMAIN minted
    THEN [status |-> 500, msg |-> ErrorHandlerMessage("TypeError"), ran |-> FALSE]
  ELSE IF JwtDecode(auth.words[2]).role # "ADMIN"
    THEN [status |-> 403, msg |-> AdminErrorMessage, ran |-> FALSE]
  ELSE [status |-> 200, msg |-> "ok", ran |-> TRUE]

\* what checkAdmin ends with, in order
AdminOutcomes(auth) ==
  IF ~auth.present THEN <<"response">>
  ELSE IF Len(auth.words) # 2 THEN <<"response">>
  ELSE IF auth.words[2] \notin DOMAIN minted THEN <<"next(error)">>
  ELSE IF JwtDecode(auth.words[2]).role # "ADMIN" THEN <<"response">>
  ELSE <<"next">>

\* whether checkAdmin gets as far as reading the role
AdminReachesRole(auth) ==
  auth.present /\ Len(auth.words) = 2 /\ auth.words[2] \in DOMAIN minted

\* the authorization headers sent to the admin-only routes
AdminAuthInputs ==
  AuthInputs \cup {AuthHeader(<<"Bearer", c, "x">>) : c \in Tokens("ACCESS_TOKEN")}

\* A request to a route behind checkAccessToken and checkAdmin: GET /users,
\* POST /users, DELETE /users/:id.
AdminRoute(r, auth) ==
  /\ Free(r)
  /\ \E up \in FaultChoices :
       /\ up \/ AccessReachesGet(auth)
       /\ CountFault(up)
       /\ LET first == CheckAccessToken(auth, up)
              answer == IF first.ran THEN CheckAdmin(auth) ELSE first
              rec == [IdleReq EXCEPT !.op = "admin",
                        !.at = IF BearerForm(auth) THEN auth.words[2] ELSE Undefined,
                        !.form = IF BearerForm(auth) THEN "bearer" ELSE "other",
                        !.vres = IF BearerForm(auth)
                                 THEN JwtVerify("ACCESS_TOKEN", auth.words[2]) ELSE "-",
                        !.res = IF AccessReachesGet(auth)
                                THEN MemGet(auth.words[2], up) ELSE "-",
                        !.role = IF first.ran /\ AdminReachesRole(auth)
                                 THEN JwtDecode(auth.words[2]).role ELSE "-",
                        !.outs = IF first.ran
                                 THEN <<AccessOutcomes(AccessTry(auth, up)), AdminOutcomes(auth)>>
                                 ELSE <<AccessOutcomes(AccessTry(auth, up))>>,
                        !.ran = answer.ran, !.fault = ~up]
          IN req' = [req EXCEPT ![r] = Respond(rec, answer.status, answer.msg)]
  /\ UNCHANGED <<cache, minted, now, inflight, issued, expelled, revoked>>

----------------------------------------------------------------------------
\* checkRefreshToken, then the refresh handler.

\* the catch block without its cache-miss clause
RefreshCatchNoMiss(rec, error) ==
  IF \/ error.message = AuthErrorMessages.REFRESH_TOKEN_EXPIRED
     \/ error.class = "TokenExpiredError"
    THEN Respond(rec, 401, AuthErrorMessages.REFRESH_TOKEN_EXPIRED)
  ELSE IF \/ error.message = AuthErrorMessages.REFRESH_TOKEN_NOT_VALID_MESSAGE
          \/ error.class = "JsonWebTokenError"
    THEN Respond(rec, 401, AuthErrorMessages.REFRESH_TOKEN_NOT_VALID_MESSAGE)
  ELSE ErrorHandler(rec, error.class)

\* the catch block of checkRefreshToken
RefreshCatch(rec, error) ==
  IF \/ error.message = AuthErrorMessages.REFRESH_TOKEN_EXPIRED
     \/ (error.class = "MemcachedMethodError" /\ error.message = "cache miss")
     \/ error.class = "TokenExpiredError"
    THEN Respond(rec, 401, AuthErrorMessages.REFRESH_TOKEN_EXPIRED)
  ELSE IF \/ error.message = AuthErrorMessages.REFRESH_TOKEN_NOT_VALID_MESSAGE
          \/ error.class = "JsonWebTokenError"
    THEN Respond(rec, 401, AuthErrorMessages.REFRESH_TOKEN_NOT_VALID_MESSAGE)
  ELSE ErrorHandler(rec, error.class)

\* what checkRefreshToken ends with, in order
RefreshOutcomes(error) ==
  IF error = NoError THEN <<"next">>
  ELSE IF \/ error.message = AuthErrorMessages.REFRESH_TOKEN_EXPIRED
          \/ (error.class = "MemcachedMethodError" /\ error.message = "cache miss")
          \/ error.class = "TokenExpiredError"
    THEN <<"response">>
  ELSE IF \/ error.message = AuthErrorMessages.REFRESH_TOKEN_NOT_VALID_MESSAGE
          \/ error.class = "JsonWebTokenError"
    THEN <<"response">>
  ELSE <<"next(error)">>

\* the try block up to the lookup of the token in the session cache store
RefreshTryToken(xrt, up) ==
  IF xrt = Undefined THEN Error(AuthErrorMessages.REFRESH_TOKEN_NOT_VALID_MESSAGE)
  ELSE IF JwtVerify("REFRESH_TOKEN", xrt) # "ok"
    THEN JwtError(JwtVerify("REFRESH_TOKEN", xrt))
  ELSE IF MemGet(xrt, up) # "cache hit" THEN MemcachedMethodError(MemGet(xrt, up))
  ELSE NoError

RefreshReachesGet(xrt) == xrt # Undefined /\ JwtVerify("REFRESH_TOKEN", xrt) = "ok"

RefreshGuardToken(r, xrt) ==
  /\ Free(r)
  /\ \E up \in FaultChoices :
       /\ up \/ RefreshReachesGet(xrt)
       /\ CountFault(up)
       /\ LET error == RefreshTryToken(xrt, up)
              rec == [IdleReq EXCEPT !.op = "refresh", !.rt = xrt,
                        !.vres = IF xrt = Undefined THEN "-" ELSE JwtVerify("REFRESH_TOKEN", xrt),
                        !.res = IF RefreshReachesGet(xrt) THEN MemGet(xrt, up) ELSE "-",
                        !.fault = ~up]
          IN req' = [req EXCEPT ![r] =
                       IF error = NoError
                       THEN [rec EXCEPT !.pc = "list", !.sub = cache[xrt].val]
                       ELSE RefreshCatch([rec EXCEPT !.outs = <<RefreshOutcomes(error)>>],
                                         error)]
  /\ UNCHANGED <<cache, minted, now, inflight, issued, expelled, revoked>>

\* the guard without the check of the session key list
RefreshListCheckSkipped(cachedSession, refreshToken) == TRUE

\* the check of the token in the session key list: whether the guard passes
RefreshListCheck(cachedSession, refreshToken) ==
  ~(Len(SelectSeq(cachedSession, LAMBDA value : value = refreshToken)) <= 0)

RefreshGuardList(r) ==
  /\ req[r].op = "refresh" /\ req[r].pc = "list"
  /\ \E up \in FaultChoices :
       /\ CountFault(up)
       /\ LET cachedSession == GetCachedQueryKeys(SessionField(req[r].sub), up)
              rec == [req[r] EXCEPT !.fault = @ \/ ~up,
                        !.lres = MemGet(GroupKey(SessionField(req[r].sub)), up),
                        !.listed = \E i \in 1..Len(cachedSession) : cachedSession[i] = req[r].rt]
          IN req' = [req EXCEPT ![r] =
                       IF RefreshListCheck(cachedSession, req[r].rt)
                       THEN [rec EXCEPT !.pc = "handler", !.ran = TRUE,
                               !.outs = <<RefreshOutcomes(NoError)>>]
                       ELSE RefreshCatch(
                              [rec EXCEPT !.outs = <<RefreshOutcomes(
                                 Error(AuthErrorMessages.REFRESH_TOKEN_EXPIRED))>>],
                              Error(AuthErrorMessages.REFRESH_TOKEN_EXPIRED))]
  /\ UNCHANGED <<cache, minted, now, inflight, issued, expelled, revoked>>

\* the lifetime refresh gives the access token's cache entry
RefreshAccessLifetime == DurationMedium

\* refresh: runs after checkRefreshToken has called next()
RefreshHandler(r, auth) ==
  /\ req[r].op = "refresh" /\ req[r].pc = "handler"
  /\ NextNonce <= MaxTokens
  /\ \E up \in FaultChoices :
       LET accessToken == TokenName("ACCESS_TOKEN", NextNonce)
           id == JwtDecodeId(req[r].rt)
           old == IF auth.present /\ Len(auth.words) > 1 THEN auth.words[2] ELSE Undefined
       IN /\ inflight' = inflight \cup
               (IF old # Undefined THEN {Call(r, "del", old, NoValue, 0)} ELSE {})
          /\ minted' = (accessToken :> SignPayload("ACCESS_TOKEN", DecodedUserData(req[r].rt))) @@ minted
          /\ CountFault(up)
          /\ IF up
             THEN /\ cache' = CacheSet(cache, accessToken, id, RefreshAccessLifetime)
                  /\ req' = [req EXCEPT ![r] =
                               Respond([@ EXCEPT !.at = accessToken, !.old = old], 200,
                                       "new access token generated")]
                  /\ issued' = issued \cup {accessToken}
             ELSE /\ cache' = cache
                  /\ req' = [req EXCEPT ![r] =
                               ErrorHandler([@ EXCEPT !.fault = TRUE, !.old = old],
                                            "MemcachedMethodError")]
                  /\ issued' = issued
  /\ UNCHANGED <<now, expelled, revoked>>

----------------------------------------------------------------------------
\* logout: the deletes it issues for the two headers.  An authorization
\* header of one word makes it call del(undefined), which changes no entry.
LogoutCalls(r, xrt, auth) ==
  (IF xrt # Undefined THEN {Call(r, "del", xrt, NoValue, 0)} ELSE {})
    \cup (IF auth.present /\ Len(auth.words) >= 2
          THEN {Call(r, "del", auth.words[2], NoValue, 0)} ELSE {})

Logout(r, xrt, auth) ==
  /\ Free(r)
  /\ inflight' = inflight \cup LogoutCalls(r, xrt, auth)
  /\ req' = [req EXCEPT ![r] =
               Respond([IdleReq EXCEPT !.op = "logout", !.rt = xrt, !.ran = TRUE,
                          !.at = IF auth.present /\ Len(auth.words) >= 2
                                 THEN auth.words[2] ELSE Undefined],
                       200, "logged out")]
  /\ UNCHANGED <<cache, minted, now, faults, issued, expelled, revoked>>

----------------------------------------------------------------------------
\* The forced logout of user u: invalidateCachedQueries(queryKeys.session(id)),
\* the call deleteUser makes as well.
LogoutAll(r, u) ==
  /\ Free(r)
  /\ \E up \in FaultChoices :
       /\ CountFault(up)
       /\ inflight' = inflight \cup InvalidateCachedQueries(r, SessionField(u), up)
       /\ req' = [req EXCEPT ![r] =
                    Respond([IdleReq EXCEPT !.op = "logoutAll", !.sub = u, !.fault = ~up,
                               !.snap = {t \in issued : minted[t].sub = u},
                               !.read = Members(GetCachedQueryKeys(SessionField(u), up))],
                            200, "logged out")]
  /\ UNCHANGED <<cache, minted, now, issued, expelled, revoked>>

----------------------------------------------------------------------------
\* The cache server answers a call that was not awaited, or the call fails
\* (the failure is logged by the .catch handler).
ApplyCall(o) ==
  /\ o \in inflight
  /\ inflight' = inflight \ {o}
  /\ \E up \in FaultChoices :
       /\ CountFault(up)
       /\ cache' = IF ~up THEN cache
                   ELSE IF o.op = "set" THEN CacheSet(cache, o.key, o.val, o.ttl)
                   ELSE IF o.op = "touch" THEN CacheTouch(cache, o.key, o.ttl)
                   ELSE CacheDel(cache, o.key)
       /\ req' = [req EXCEPT ![o.rid].fault = @ \/ ~up]
  /\ UNCHANGED <<minted, now, issued, expelled, revoked>>

\* The request in slot r is settled; its slot is free for the next request.
Retire(r) ==
  /\ req[r].pc = "done"
  /\ InflightOf(r) = {}
  /\ req' = [req EXCEPT ![r] = IdleReq]
  /\ expelled' = IF req[r].op = "logoutAll" /\ ~req[r].fault
                 THEN expelled \cup req[r].snap ELSE expelled
  /\ revoked' = IF req[r].op = "logoutAll" /\ ~req[r].fault
                THEN revoked \cup req[r].read ELSE revoked
  /\ UNCHANGED <<cache, minted, now, inflight, faults, issued>>

----------------------------------------------------------------------------
\* Time passes until the next expiry of a token or of a cache entry; the
\* cache server drops the entries whose lifetime has elapsed.  A request is
\* served in far less time than the shortest lifetime: time passes between
\* requests.
Deadlines ==
  {minted[t].exp : t \in DOMAIN minted} \cup {cache[k].exp : k \in DOMAIN cache}

Tick ==
  /\ Quiet
  /\ \E d \in Deadlines :
       /\ d > now
       /\ \A e \in Deadlines : e > now => d <= e
       /\ now' = d
       /\ cache' = [k \in {x \in DOMAIN cache : d < cache[x].exp} |-> cache[k]]
  /\ UNCHANGED <<minted, req, inflight, faults, issued, expelled, revoked>>

----------------------------------------------------------------------------
\* a request arrives; auths are the authorization headers that clients send
\* along with a refresh or a logout
Arrive(r, auths) ==
  \/ \E u \in Users : LoginStart(r, u)
  \/ \E xrt \in XrtInputs : RefreshGuardToken(r, xrt)
  \/ \E xrt \in LogoutXrtInputs, auth \in auths : Logout(r, xrt, auth)
  \/ \E u \in Users : LogoutAll(r, u)

\* a request being served takes its next step
Proceed(r, auths) ==
  \/ LoginRegisterSession(r)
  \/ LoginFinish(r)
  \/ RefreshGuardList(r)
  \/ \E auth \in auths : RefreshHandler(r, auth)

\* a request is settled and has not left yet
Settling == \E r \in Reqs : req[r].pc = "done" /\ InflightOf(r) = {}

\* Requests are served concurrently; a settled request leaves at once.
\* Clients send no authorization header along with a refresh or a logout.
Next ==
  \/ UNCHANGED <<csrfVars, queryVars, storeVars>> /\ \E r \in Reqs : Retire(r)
  \/ UNCHANGED <<csrfVars, queryVars, storeVars>> /\ ~Settling /\ \E r \in Reqs : Arrive(r, {NoAuth})
  \/ UNCHANGED <<csrfVars, queryVars, storeVars>> /\ ~Settling /\ \E r \in Reqs : Proceed(r, {NoAuth})
  \/ UNCHANGED <<csrfVars, queryVars, storeVars>> /\ ~Settling /\ \E o \in inflight : ApplyCall(o)
  \/ UNCHANGED <<csrfVars, queryVars, storeVars>> /\ Tick

Spec == Init /\ [][Next]_vars

\* Requests are served one at a time, with every header, and routes behind
\* checkAccessToken are requested too.
NextSerial ==
  \/ UNCHANGED <<csrfVars, queryVars, storeVars>> /\ Retire(1)
  \/ UNCHANGED <<csrfVars, queryVars, storeVars>> /\ Quiet /\ Arrive(1, OldAccessInputs)
  \/ UNCHANGED <<csrfVars, queryVars, storeVars>> /\ Quiet /\ \E auth \in AuthInputs : Protected(1, auth)
  \/ UNCHANGED <<csrfVars, queryVars, storeVars>> /\ Quiet /\ \E auth \in AdminAuthInputs : AdminRoute(1, auth)
  \/ UNCHANGED <<csrfVars, queryVars, storeVars>> /\ ~Settling /\ Proceed(1, RefreshAuthInputs)
  \/ UNCHANGED <<csrfVars, queryVars, storeVars>> /\ ~Settling /\ \E o \in inflight : ApplyCall(o)
  \/ UNCHANGED <<csrfVars, queryVars, storeVars>> /\ Tick

SpecSerial == Init /\ [][NextSerial]_vars

----------------------------------------------------------------------------
\* Properties.

TypedFailures ==
  {<<401, AuthErrorMessages.ACCESS_TOKEN_NOT_VALID_MESSAGE>>,
   <<401, AuthErrorMessages.ACCESS_TOKEN_EXPIRED>>,
   <<500, "internal memcached error">>}

C2_RevokedRefreshDenied ==
  \A r \in Reqs :
    (req[r].op = "refresh" /\ req[r].vres = "ok" /\ req[r].res = "cache miss") =>
      /\ req[r].pc = "done"
      /\ req[r].status = 401
      /\ req[r].msg = AuthErrorMessages.REFRESH_TOKEN_EXPIRED
      /\ ~req[r].ran
      /\ req[r].at = Undefined

\* the entry of an issued, still verifying refresh token was deleted
C2_Witness ==
  \E r \in Reqs :
    /\ req[r].op = "refresh" /\ req[r].vres = "ok" /\ req[r].res = "cache miss"
    /\ req[r].rt \in issued
    /\ req[r].status = 401

\* whether checkRefreshToken would call next() for x-refresh-token t now
RefreshWouldPass(t) ==
  /\ RefreshTryToken(t, TRUE) = NoError
  /\ RefreshListCheck(GetCachedQueryKeys(SessionField(cache[t].val), TRUE), t)

\* whether checkAccessToken would call next() for "Bearer a" now
AccessWouldPass(a) == CheckAccessToken(AuthHeader(<<"Bearer", a>>), TRUE).ran

\* the refresh tokens of user u whose cache entry is present
LiveSessions(u) ==
  {t \in Tokens("REFRESH_TOKEN") : minted[t].sub = u /\ CacheHit(t)}

C4_LoginAtCap ==
  [][\A r \in Reqs :
       (/\ req[r].pc = "idle"
        /\ req'[r].op = "login"
        /\ Len(GetCachedQueryKeys(SessionField(req'[r].sub), TRUE)) >= maxConcurrentSessions)
       => /\ req'[r].status = 403
          /\ minted' = minted
          /\ cache' = cache
          /\ inflight' = inflight]_vars

\* C5: no user ever has more than maxConcurrentSessions refresh tokens
\* whose cache entry is present.
C5_SessionCap ==
  \A u \in Users : Cardinality(LiveSessions(u)) <= maxConcurrentSessions

C8_LogoutGuarded ==
  [][\A r \in Reqs :
       (/\ req[r].pc = "idle"
        /\ req'[r].op = "logout"
        /\ {o \in inflight' : o.rid = r} # {})
       => RefreshWouldPass(req'[r].rt)]_vars

\* C9: a forced logout deletes no cache entry of an access token, neither
\* when it issues its deletes nor when the cache runs them, and an access
\* token passes checkAccessToken only within AccessLife of its issue.
C9_AccessOutlivesLogoutAll ==
  [][/\ \A r \in Reqs :
          (req[r].pc = "idle" /\ req'[r].op = "logoutAll") =>
            /\ cache' = cache
            /\ \A o \in inflight' \ inflight : o.key \notin Tokens("ACCESS_TOKEN")
     /\ \A o \in inflight :
          (req[o.rid].op = "logoutAll" /\ inflight' = inflight \ {o}) =>
            \A a \in Tokens("ACCESS_TOKEN") : a \in DOMAIN cache => a \in DOMAIN cache'
     /\ \A a \in Tokens("ACCESS_TOKEN") :
          AccessWouldPass(a)' => now' < minted[a].iat + AccessLife]_vars

\* an access token issued before a settled forced logout, which deleted a
\* refresh token of the same user, passes
C9_Witness ==
  \E a \in expelled :
    /\ minted[a].kind = "ACCESS_TOKEN" /\ AccessWouldPass(a)
    /\ \E t \in revoked : minted[t].sub = minted[a].sub

\* C10: when the lookup of the token in checkAccessToken or checkRefreshToken
\* fails with an internal error the request is answered 500, and when the read
\* of the session list fails it is answered 401; the handler behind the guard
\* does not run.
C10_FailClosed ==
  \A r \in Reqs :
    /\ (req[r].op \in {"protected", "refresh"} /\ req[r].res = "internal error") =>
         (req[r].pc = "done" /\ req[r].status = 500 /\ ~req[r].ran)
    /\ (req[r].op = "refresh" /\ req[r].lres = "internal error") =>
         (req[r].pc = "done" /\ req[r].status = 401 /\ ~req[r].ran)

\* the lookup of an issued, verifying token failed
C10_Witness ==
  \E r \in Reqs :
    /\ req[r].op \in {"protected", "refresh"}
    /\ req[r].vres = "ok" /\ req[r].res = "internal error"
    /\ req[r].status = 500

----------------------------------------------------------------------------
\* Anti-forgery handshake (CsrfMiddlewares, AuthHelpers).

MaxCsrf == 2

\* the lifetimes the two guards pass to memcached.touch: 5 * 60, 7 * 24 * 60 * 60
CsrfAnonymousLife == 300
CsrfAuthorizedLife == 604800

CsrfErrorMessages ==
  [ANONYM_CSRF_TOKEN_NOT_VALID_MESSAGE |-> "valid anonymous csrf token not supplied",
   ANONYM_CSRF_TOKEN_EXPIRED |-> "valid anonymous csrf token expired or not supplied",
   CSRF_TOKEN_NOT_VALID_MESSAGE |-> "valid csrf token not supplied",
   CSRF_TOKEN_EXPIRED |-> "valid csrf token expired or not supplied",
   REFRESH_TOKEN_NOT_VALID_MESSAGE |-> "valid refresh token not supplied",
   REFRESH_TOKEN_EXPIRED |-> "refresh token expired"]

\* createHash('sha256').update(data).digest('hex')
Sha256(data) == "sha256(" \o data \o ")"

\* the hash of `${csrfKey}${csrfToken}`
ExpectedHashedCsrfToken(csrfKey, csrfToken) == Sha256(csrfKey \o csrfToken)

\* clearSession(res, cacheToken): the delete it issues and does not wait for
ClearSession(r, cacheToken) ==
  IF cacheToken = Undefined THEN {} ELSE {Call(r, "del", cacheToken, NoValue, 0)}

\* the anti-forgery tokens and cookies the server has handed out
CsrfTokens == DOMAIN handed
CsrfCookies == {handed[t].cookie : t \in DOMAIN handed}

\* what clients send: the cookie is signed, so it is absent or one the server
\* has set; the header is any string
CookieInputs == {Undefined} \cup CsrfCookies
CsrfHeaderInputs == {Undefined, "junk"} \cup CsrfTokens
RefreshCookieInputs == {Undefined} \cup Tokens("REFRESH_TOKEN")

Headers(cookie, csrfToken, refreshToken) ==
  [cookie |-> cookie, csrfToken |-> csrfToken, refreshToken |-> refreshToken]

\* the try block of checkAnonymousCsrfToken without the comparison of hashes
AnonymousTryNoHash(h, up) ==
  IF h.cookie = Undefined
    THEN Error(CsrfErrorMessages.ANONYM_CSRF_TOKEN_NOT_VALID_MESSAGE)
  ELSE IF h.csrfToken = Undefined
    THEN Error(CsrfErrorMessages.ANONYM_CSRF_TOKEN_NOT_VALID_MESSAGE)
  ELSE IF MemGet(h.csrfToken, up) # "cache hit"
    THEN MemcachedMethodError(MemGet(h.csrfToken, up))
  ELSE NoError

\* checkAnonymousCsrfToken, the try block up to the comparison of the hashes:
\* the error thrown, or NoError
AnonymousTry(h, up) ==
  IF h.cookie = Undefined
    THEN Error(CsrfErrorMessages.ANONYM_CSRF_TOKEN_NOT_VALID_MESSAGE)
  ELSE IF h.csrfToken = Undefined
    THEN Error(CsrfErrorMessages.ANONYM_CSRF_TOKEN_NOT_VALID_MESSAGE)
  ELSE IF MemGet(h.csrfToken, up) # "cache hit"
    THEN MemcachedMethodError(MemGet(h.csrfToken, up))
  ELSE IF ExpectedHashedCsrfToken(cache[h.csrfToken].val, h.csrfToken) # h.cookie
    THEN Error(CsrfErrorMessages.ANONYM_CSRF_TOKEN_NOT_VALID_MESSAGE)
  ELSE NoError

\* whether the try block reaches memcached.get
AnonymousReachesGet(h) == h.cookie # Undefined /\ h.csrfToken # Undefined

\* a catch block that answers a miss like a wrong hash
AnonymousCatchOneMessage(r, h, error) ==
  IF \/ error.message = CsrfErrorMessages.ANONYM_CSRF_TOKEN_NOT_VALID_MESSAGE
     \/ (error.class = "MemcachedMethodError" /\ error.message = "cache miss")
    THEN [status |-> 403, msg |-> CsrfErrorMessages.ANONYM_CSRF_TOKEN_NOT_VALID_MESSAGE,
          calls |-> ClearSession(r, h.csrfToken)]
  ELSE [status |-> 500, msg |-> ErrorHandlerMessage(error.class), calls |-> {}]

\* checkAnonymousCsrfToken, the catch block: the response, and the delete
\* clearSession issues
AnonymousCatch(r, h, error) ==
  IF error.message = CsrfErrorMessages.ANONYM_CSRF_TOKEN_NOT_VALID_MESSAGE
    THEN [status |-> 403, msg |-> CsrfErrorMessages.ANONYM_CSRF_TOKEN_NOT_VALID_MESSAGE,
          calls |-> ClearSession(r, h.csrfToken)]
  ELSE IF error.class = "MemcachedMethodError" /\ error.message = "cache miss"
    THEN [status |-> 403, msg |-> CsrfErrorMessages.ANONYM_CSRF_TOKEN_EXPIRED,
          calls |-> {}]
  ELSE [status |-> 500, msg |-> ErrorHandlerMessage(error.class), calls |-> {}]

\* what checkAnonymousCsrfToken ends with, in order: after next(error) for
\* a cache error that is no miss the catch block goes on to its last line
AnonymousOutcomes(error) ==
  IF error = NoError THEN <<"next">>
  ELSE IF error.message = CsrfErrorMessages.ANONYM_CSRF_TOKEN_NOT_VALID_MESSAGE
    THEN <<"response">>
  ELSE IF error.class = "MemcachedMethodError"
    THEN IF error.message = "cache miss" THEN <<"response">>
         ELSE <<"next(error)", "next(error)">>
  ELSE <<"next(error)">>

\* checkAnonymousCsrfToken in front of a route: on a pass it touches the
\* entry (a failed touch is logged) and calls next()
CheckAnonymousCsrfToken(r, route, h) ==
  /\ Free(r)
  /\ \E upGet \in FaultChoices, upTouch \in FaultChoices :
       LET error == AnonymousTry(h, upGet)
           pass == error = NoError
           rec == [IdleReq EXCEPT !.op = route,
                     !.res = IF AnonymousReachesGet(h)
                             THEN MemGet(h.csrfToken, upGet) ELSE "-",
                     !.outs = <<AnonymousOutcomes(error)>>,
                     !.ran = pass, !.fault = ~upGet \/ ~upTouch]
       IN /\ upGet \/ AnonymousReachesGet(h)
          /\ upTouch \/ (upGet /\ pass)
          /\ faults' = IF upGet /\ upTouch THEN faults ELSE faults + 1
          /\ hdr' = [hdr EXCEPT ![r] = h]
          /\ IF pass
             THEN /\ cache' = IF upTouch
                              THEN CacheTouch(cache, h.csrfToken, CsrfAnonymousLife)
                              ELSE cache
                  /\ inflight' = inflight
                  /\ req' = [req EXCEPT ![r] =
                               IF route = "csrfLogin" THEN [rec EXCEPT !.pc = "handler"]
                               ELSE Respond(rec, 200, "ok")]
             ELSE /\ cache' = cache
                  /\ inflight' = inflight \cup AnonymousCatch(r, h, error).calls
                  /\ req' = [req EXCEPT ![r] =
                               Respond(rec, AnonymousCatch(r, h, error).status,
                                       AnonymousCatch(r, h, error).msg)]
  /\ UNCHANGED <<minted, now, issued, expelled, revoked, handed>>

\* the try block of checkAuthorizedCsrfToken with the entry looked up under
\* the token of the x-csrf-token header
AuthorizedTryKeyedByHeader(h, up) ==
  IF h.cookie = Undefined
    THEN Error(CsrfErrorMessages.CSRF_TOKEN_NOT_VALID_MESSAGE)
  ELSE IF h.csrfToken = Undefined
    THEN Error(CsrfErrorMessages.CSRF_TOKEN_NOT_VALID_MESSAGE)
  ELSE IF h.refreshToken = Undefined
    THEN Error(CsrfErrorMessages.REFRESH_TOKEN_NOT_VALID_MESSAGE)
  ELSE IF JwtVerify("REFRESH_TOKEN", h.refreshToken) # "ok"
    THEN JwtError(JwtVerify("REFRESH_TOKEN", h.refreshToken))
  ELSE IF MemGet(h.csrfToken, up) # "cache hit"
    THEN MemcachedMethodError(MemGet(h.csrfToken, up))
  ELSE IF ExpectedHashedCsrfToken(cache[h.csrfToken].val, h.csrfToken) # h.cookie
    THEN Error(CsrfErrorMessages.CSRF_TOKEN_NOT_VALID_MESSAGE)
  ELSE NoError

\* checkAuthorizedCsrfToken, the try block up to the comparison of the
\* hashes: the error thrown, or NoError
AuthorizedTry(h, up) ==
  IF h.cookie = Undefined
    THEN Error(CsrfErrorMessages.CSRF_TOKEN_NOT_VALID_MESSAGE)
  ELSE IF h.csrfToken = Undefined
    THEN Error(CsrfErrorMessages.CSRF_TOKEN_NOT_VALID_MESSAGE)
  ELSE IF h.refreshToken = Undefined
    THEN Error(CsrfErrorMessages.REFRESH_TOKEN_NOT_VALID_MESSAGE)
  ELSE IF JwtVerify("REFRESH_TOKEN", h.refreshToken) # "ok"
    THEN JwtError(JwtVerify("REFRESH_TOKEN", h.refreshToken))
  ELSE IF MemGet(h.refreshToken, up) # "cache hit"
    THEN MemcachedMethodError(MemGet(h.refreshToken, up))
  ELSE IF ExpectedHashedCsrfToken(cache[h.refreshToken].val, h.csrfToken) # h.cookie
    THEN Error(CsrfErrorMessages.CSRF_TOKEN_NOT_VALID_MESSAGE)
  ELSE NoError

\* whether the try block reaches memcached.get
AuthorizedReachesGet(h) ==
  /\ h.cookie # Undefined /\ h.csrfToken # Undefined /\ h.refreshToken # Undefined
  /\ JwtVerify("REFRESH_TOKEN", h.refreshToken) = "ok"

\* checkAuthorizedCsrfToken, the catch block: the response, and the delete
\* clearSession issues
AuthorizedCatch(r, h, error) ==
  IF error.message = CsrfErrorMessages.CSRF_TOKEN_NOT_VALID_MESSAGE
    THEN [status |-> 403, msg |-> CsrfErrorMessages.CSRF_TOKEN_NOT_VALID_MESSAGE,
          calls |-> ClearSession(r, h.refreshToken)]
  ELSE IF error.class = "MemcachedMethodError" /\ error.message = "cache miss"
    THEN [status |-> 403, msg |-> CsrfErrorMessages.CSRF_TOKEN_EXPIRED, calls |-> {}]
  ELSE IF error.class = "MemcachedMethodError"
    THEN [status |-> 500, msg |-> ErrorHandlerMessage(error.class), calls |-> {}]
  ELSE IF error.class = "TokenExpiredError"
    THEN [status |-> 401, msg |-> CsrfErrorMessages.REFRESH_TOKEN_EXPIRED,
          calls |-> ClearSession(r, h.refreshToken)]
  ELSE IF \/ error.message = CsrfErrorMessages.REFRESH_TOKEN_NOT_VALID_MESSAGE
          \/ error.class = "JsonWebTokenError"
    THEN [status |-> 401, msg |-> CsrfErrorMessages.REFRESH_TOKEN_NOT_VALID_MESSAGE,
          calls |-> ClearSession(r, h.refreshToken)]
  ELSE [status |-> 500, msg |-> ErrorHandlerMessage(error.class), calls |-> {}]

\* what checkAuthorizedCsrfToken ends with, in order: after next(error) for
\* a cache error that is no miss the catch block goes on, and ends with
\* next(error) again
AuthorizedOutcomes(error) ==
  IF error = NoError THEN <<"next">>
  ELSE IF error.message = CsrfErrorMessages.CSRF_TOKEN_NOT_VALID_MESSAGE
    THEN <<"response">>
  ELSE IF error.class = "MemcachedMethodError"
    THEN IF error.message = "cache miss" THEN <<"response">>
         ELSE <<"next(error)", "next(error)">>
  ELSE IF error.class = "TokenExpiredError" THEN <<"response">>
  ELSE IF \/ error.message = CsrfErrorMessages.REFRESH_TOKEN_NOT_VALID_MESSAGE
          \/ error.class = "JsonWebTokenError"
    THEN <<"response">>
  ELSE <<"next(error)">>

\* checkAuthorizedCsrfToken in front of a route: on a pass it touches the
\* entry (a failed touch is logged) and calls next()
CheckAuthorizedCsrfToken(r, h) ==
  /\ Free(r)
  /\ \E upGet \in FaultChoices, upTouch \in FaultChoices :
       LET error == AuthorizedTry(h, upGet)
           pass == error = NoError
           rec == [IdleReq EXCEPT !.op = "authorized", !.rt = h.refreshToken,
                     !.vres = IF h.refreshToken # Undefined
                              THEN JwtVerify("REFRESH_TOKEN", h.refreshToken) ELSE "-",
                     !.res = IF AuthorizedReachesGet(h)
                             THEN MemGet(h.refreshToken, upGet) ELSE "-",
                     !.outs = <<AuthorizedOutcomes(error)>>,
                     !.ran = pass, !.fault = ~upGet \/ ~upTouch]
       IN /\ upGet \/ AuthorizedReachesGet(h)
          /\ upTouch \/ (upGet /\ pass)
          /\ faults' = IF upGet /\ upTouch THEN faults ELSE faults + 1
          /\ hdr' = [hdr EXCEPT ![r] = h]
          /\ IF pass
             THEN /\ cache' = IF upTouch
                              THEN CacheTouch(cache, h.refreshToken, CsrfAuthorizedLife)
                              ELSE cache
                  /\ inflight' = inflight
                  /\ req' = [req EXCEPT ![r] = Respond(rec, 200, "ok")]
             ELSE /\ cache' = cache
                  /\ inflight' = inflight \cup AuthorizedCatch(r, h, error).calls
                  /\ req' = [req EXCEPT ![r] =
                               Respond(rec, AuthorizedCatch(r, h, error).status,
                                       AuthorizedCatch(r, h, error).msg)]
  /\ UNCHANGED <<minted, now, issued, expelled, revoked, handed>>

\* the token and the key generateCsrfToken draws at random
CsrfTokenName(n) == "ct" \o ToString(n)
CsrfKeyName(n) == "ck" \o ToString(n)

\* generateCsrfToken: caches the key under the token for a short time, sets
\* the hashed cookie and answers the token
GenerateCsrfToken(r) ==
  /\ Free(r)
  /\ Cardinality(DOMAIN handed) < MaxCsrf
  /\ \E up \in FaultChoices :
       LET n == Cardinality(DOMAIN handed) + 1
           csrfToken == CsrfTokenName(n)
           csrfKey == CsrfKeyName(n)
           rec == [IdleReq EXCEPT !.op = "token", !.fault = ~up]
       IN /\ CountFault(up)
          /\ IF up
             THEN /\ cache' = CacheSet(cache, csrfToken, csrfKey, CsrfAnonymousLife)
                  /\ handed' = (csrfToken :>
                                  [key |-> csrfKey,
                                   cookie |-> ExpectedHashedCsrfToken(csrfKey, csrfToken),
                                   refreshToken |-> Undefined]) @@ handed
                  /\ req' = [req EXCEPT ![r] = Respond(rec, 200, "ok")]
             ELSE /\ cache' = cache
                  /\ handed' = handed
                  /\ req' = [req EXCEPT ![r] = ErrorHandler(rec, "MemcachedMethodError")]
  /\ UNCHANGED <<minted, now, inflight, issued, expelled, revoked, hdr>>

\* login behind checkAnonymousCsrfToken (valid email and password of user
\* u): the entry under the anti-forgery token is deleted and the key is
\* cached under the new refresh token for the refresh lifetime
CsrfLogin(r, u) ==
  /\ req[r].op = "csrfLogin" /\ req[r].pc = "handler"
  /\ NextNonce <= MaxTokens
  /\ \E up \in FaultChoices :
       LET refreshToken == TokenName("REFRESH_TOKEN", NextNonce)
           csrfToken == hdr[r].csrfToken
       IN /\ CountFault(up)
          /\ minted' = (refreshToken :> SignPayload("REFRESH_TOKEN", SafeUserData(u))) @@ minted
          /\ IF up
             THEN /\ cache' = CacheSet(CacheDel(cache, csrfToken), refreshToken,
                                       cache[csrfToken].val, CsrfAuthorizedLife)
                  /\ handed' = [handed EXCEPT ![csrfToken].refreshToken = refreshToken]
                  /\ issued' = issued \cup {refreshToken}
                  /\ req' = [req EXCEPT ![r] =
                               Respond([@ EXCEPT !.sub = u, !.rt = refreshToken],
                                       200, "logged in")]
             ELSE /\ cache' = cache
                  /\ handed' = handed
                  /\ issued' = issued
                  /\ req' = [req EXCEPT ![r] =
                               ErrorHandler([@ EXCEPT !.fault = TRUE],
                                            "MemcachedMethodError")]
  /\ UNCHANGED <<now, inflight, expelled, revoked, hdr>>

\* the settled request leaves, and its headers with it
CsrfRetire(r) ==
  /\ Retire(r)
  /\ hdr' = [hdr EXCEPT ![r] = NoHeaders]
  /\ UNCHANGED handed

\* The handshake, one request at a time: clients fetch anti-forgery tokens,
\* log in, and request routes behind each of the two guards.
NextCsrf ==
  \/ UNCHANGED <<queryVars, storeVars>> /\ CsrfRetire(1)
  \/ UNCHANGED <<queryVars, storeVars>> /\ Quiet /\ GenerateCsrfToken(1)
  \/ UNCHANGED <<queryVars, storeVars>> /\ Quiet /\ \E route \in {"csrfLogin", "anonymous"}, cookie \in CookieInputs,
                                        csrfToken \in CsrfHeaderInputs :
                                       CheckAnonymousCsrfToken(1, route, Headers(cookie, csrfToken, Undefined))
  \/ UNCHANGED <<queryVars, storeVars>> /\ Quiet /\ \E cookie \in CookieInputs, csrfToken \in CsrfHeaderInputs,
                                        refreshToken \in RefreshCookieInputs :
                                       CheckAuthorizedCsrfToken(1, Headers(cookie, csrfToken, refreshToken))
  \/ UNCHANGED <<queryVars, storeVars>> /\ ~Settling /\ \E u \in Users : CsrfLogin(1, u)
  \/ UNCHANGED <<csrfVars, queryVars, storeVars>> /\ ~Settling /\ \E o \in inflight : ApplyCall(o)
  \/ UNCHANGED <<csrfVars, queryVars, storeVars>> /\ Tick

SpecCsrf == Init /\ [][NextCsrf]_vars

----------------------------------------------------------------------------
\* Properties of the anti-forgery handshake.

\* the requests that went through checkAnonymousCsrfToken
BehindAnonymous(r) == req[r].op \in {"anonymous", "csrfLogin"}

\* C11: when the token T of the x-csrf-token header is cached with key K,
\* checkAnonymousCsrfToken calls next() if the cookie is sha256(K || T); for
\* every other cookie, and for no cookie, it answers 403 "valid anonymous
\* csrf token not supplied" and does not call next().
C11_AnonymousHash ==
  \A r \in Reqs :
    BehindAnonymous(r) =>
      /\ req[r].res = "cache hit" =>
           IF hdr[r].cookie = Sha256(handed[hdr[r].csrfToken].key \o hdr[r].csrfToken)
           THEN req[r].ran
           ELSE /\ ~req[r].ran
                /\ req[r].status = 403
                /\ req[r].msg = CsrfErrorMessages.ANONYM_CSRF_TOKEN_NOT_VALID_MESSAGE
      /\ hdr[r].cookie = Undefined =>
           /\ ~req[r].ran
           /\ req[r].status = 403
           /\ req[r].msg = CsrfErrorMessages.ANONYM_CSRF_TOKEN_NOT_VALID_MESSAGE

\* a cached token is sent with the cookie that belongs to another token
C11_Witness ==
  \E r \in Reqs :
    /\ BehindAnonymous(r) /\ req[r].res = "cache hit"
    /\ hdr[r].cookie \in CsrfCookies
    /\ hdr[r].cookie # handed[hdr[r].csrfToken].cookie
    /\ req[r].status = 403 /\ ~req[r].ran

\* what every request that passed checkAuthorizedCsrfToken had
AuthorizedPassed(r) ==
  /\ hdr[r].cookie # Undefined
  /\ hdr[r].csrfToken # Undefined
  /\ hdr[r].refreshToken # Undefined
  /\ req[r].vres = "ok"
  /\ req[r].res = "cache hit"
  /\ CacheHit(hdr[r].refreshToken)
  /\ hdr[r].cookie = Sha256(cache[hdr[r].refreshToken].val \o hdr[r].csrfToken)

C13_AnonymousExpired ==
  \A r \in Reqs :
    (BehindAnonymous(r) /\ req[r].res = "cache miss") =>
      /\ hdr[r].cookie # Undefined /\ hdr[r].csrfToken # Undefined
      /\ ~req[r].ran
      /\ req[r].status = 403
      /\ req[r].msg = CsrfErrorMessages.ANONYM_CSRF_TOKEN_EXPIRED
      /\ req[r].msg # CsrfErrorMessages.ANONYM_CSRF_TOKEN_NOT_VALID_MESSAGE

\* a token the server handed out is sent with its cookie after its entry is gone
C13_Witness ==
  \E r \in Reqs :
    /\ BehindAnonymous(r) /\ req[r].res = "cache miss"
    /\ hdr[r].csrfToken \in CsrfTokens
    /\ hdr[r].cookie = handed[hdr[r].csrfToken].cookie
    /\ req[r].status = 403

----------------------------------------------------------------------------
\* Read-through caching of list queries (UserHandlers) over the registry.

MaxWrites == 2
MaxElapse == 1
Horizon == 604800

\* queryKeys.user
UserQueries == "user"

\* makeCacheKey(queryKeys.user, ...query values): one key for each list query
QueryKeys == {"user:name:0:10", "user:email:0:10"}

\* how the cache answers the handler's get: it answers, it fails with an
\* internal error (memcached.get(...).catch(() => undefined)), or it answers
\* data that JSON.parse or the cached-query schema rejects
QueryAnswers ==
  IF faults < MaxFaults THEN {"ok", "internal error", "unparsable"} ELSE {"ok"}

\* what the handler finds under cacheKey
QueryGet(cacheKey, answer) ==
  IF answer = "internal error" THEN "internal error"
  ELSE IF ~CacheHit(cacheKey) THEN "cache miss"
  ELSE IF answer = "unparsable" THEN "unparsable"
  ELSE "cache hit"

\* a handler that answers whatever the cache returned
ReadThroughTrusting(found) ==
  IF found = "cache hit" \/ found = "unparsable" THEN "cache" ELSE "db"

\* where the handler takes its answer from: the cache only on a hit that
\* parses, the store otherwise
ReadThrough(found) == IF found = "cache hit" THEN "cache" ELSE "db"

\* JSON.stringify({ datas: users, maxPage, dataCount }) read at write number v
QueryResult(v) == [built |-> v]

\* getUsersData up to the answer from the cache: a hit is answered and
\* touched without waiting
GetUsersData(r, cacheKey) ==
  /\ Free(r)
  /\ \E answer \in QueryAnswers :
       LET found == QueryGet(cacheKey, answer)
           rec == [IdleReq EXCEPT !.op = "getUsers", !.res = found, !.fault = answer # "ok"]
       IN /\ answer = "unparsable" => CacheHit(cacheKey)
          /\ faults' = IF answer = "ok" THEN faults ELSE faults + 1
          /\ IF ReadThrough(found) = "cache"
             THEN /\ inflight' = inflight \cup {Call(r, "touch", cacheKey, NoValue, DurationSuper)}
                  /\ req' = [req EXCEPT ![r] = Respond(rec, 200, "query success")]
                  /\ qry' = [qry EXCEPT ![r] =
                               [key |-> cacheKey, since |-> acked,
                                served |-> cache[cacheKey].val.built, from |-> "cache"]]
             ELSE /\ inflight' = inflight
                  /\ req' = [req EXCEPT ![r] = [rec EXCEPT !.pc = "db"]]
                  /\ qry' = [qry EXCEPT ![r] =
                               [key |-> cacheKey, since |-> acked, served |-> 0, from |-> "db"]]
  /\ UNCHANGED <<cache, minted, now, issued, expelled, revoked, db, acked>>

\* getUsersData from prisma.user.findMany to the response: the result is
\* cached without waiting, registerCachedQueryKey is called and not awaited
GetUsersFromDb(r) ==
  /\ req[r].op = "getUsers" /\ req[r].pc = "db"
  /\ inflight' = inflight \cup
       {Call(r, "set", qry[r].key, QueryResult(db), DurationSuper)}
  /\ req' = [req EXCEPT ![r] = [@ EXCEPT !.pc = "register", !.status = 200,
                                           !.msg = "query success"]]
  /\ qry' = [qry EXCEPT ![r].served = db]
  /\ UNCHANGED <<cache, minted, now, faults, issued, expelled, revoked, db, acked>>

\* the registerCachedQueryKey that getUsersData left running
GetUsersRegister(r) ==
  /\ req[r].op = "getUsers" /\ req[r].pc = "register"
  /\ \E up \in FaultChoices :
       /\ CountFault(up)
       /\ inflight' = inflight \cup RegisterCachedQueryKey(r, UserQueries, qry[r].key, up)
       /\ req' = [req EXCEPT ![r].pc = "done", ![r].fault = @ \/ ~up]
  /\ UNCHANGED <<cache, minted, now, issued, expelled, revoked, db, acked, qry>>

\* createUser, editUser, deleteUser: the write to the user table
MutateUser(r) ==
  /\ Free(r)
  /\ db < MaxWrites
  /\ db' = db + 1
  /\ req' = [req EXCEPT ![r] = [IdleReq EXCEPT !.op = "mutateUser", !.pc = "invalidate"]]
  /\ qry' = [qry EXCEPT ![r] = [NoQuery EXCEPT !.since = acked, !.served = db + 1]]
  /\ UNCHANGED <<cache, minted, now, inflight, faults, issued, expelled, revoked, acked>>

\* ... then `await invalidateCachedQueries(queryKeys.user)` and the response
MutateInvalidate(r) ==
  /\ req[r].op = "mutateUser" /\ req[r].pc = "invalidate"
  /\ \E up \in FaultChoices :
       /\ CountFault(up)
       /\ inflight' = inflight \cup InvalidateCachedQueries(r, UserQueries, up)
       /\ req' = [req EXCEPT ![r] =
                    Respond([@ EXCEPT !.fault = ~up,
                               !.read = Members(GetCachedQueryKeys(UserQueries, up)),
                               !.snap = {k \in Members(GetCachedQueryKeys(UserQueries, up)) :
                                           CacheHit(k)}],
                            201, "user created")]
       /\ acked' = IF qry[r].served > acked THEN qry[r].served ELSE acked
  /\ UNCHANGED <<cache, minted, now, issued, expelled, revoked, db, qry>>

\* the settled request leaves
QueryRetire(r) ==
  /\ Retire(r)
  /\ qry' = [qry EXCEPT ![r] = NoQuery]
  /\ UNCHANGED <<db, acked>>

\* a short while passes with no request
Elapse ==
  /\ Quiet
  /\ now < MaxElapse * DurationShort
  /\ now' = now + DurationShort
  /\ UNCHANGED <<cache, minted, req, inflight, faults, issued, expelled, revoked>>

\* the list query that clients send at the same time
HotQuery == "user:name:0:10"

\* Requests to the user table, served concurrently; a request is served in
\* far less time than any cache entry lives.
NextQuery ==
  \/ UNCHANGED <<csrfVars, storeVars>> /\ \E r \in Reqs : QueryRetire(r)
  \/ UNCHANGED <<csrfVars, storeVars>> /\ ~Settling /\ \E r \in Reqs : GetUsersData(r, HotQuery)
  \/ UNCHANGED <<csrfVars, storeVars>> /\ ~Settling /\ \E r \in Reqs : GetUsersFromDb(r)
  \/ UNCHANGED <<csrfVars, storeVars>> /\ ~Settling /\ \E r \in Reqs : GetUsersRegister(r)
  \/ UNCHANGED <<csrfVars, storeVars>> /\ ~Settling /\ \E r \in Reqs : MutateUser(r)
  \/ UNCHANGED <<csrfVars, storeVars>> /\ ~Settling /\ \E r \in Reqs : MutateInvalidate(r)
  \/ UNCHANGED <<csrfVars, queryVars, storeVars>> /\ ~Settling /\ \E o \in inflight : ApplyCall(o)

SpecQuery == Init /\ [][NextQuery]_vars

\* The same requests, one at a time.
NextQuerySerial ==
  \/ UNCHANGED <<csrfVars, storeVars>> /\ QueryRetire(1)
  \/ UNCHANGED <<csrfVars, storeVars>> /\ Quiet /\ \E k \in QueryKeys : GetUsersData(1, k)
  \/ UNCHANGED <<csrfVars, storeVars>> /\ ~Settling /\ GetUsersFromDb(1)
  \/ UNCHANGED <<csrfVars, storeVars>> /\ ~Settling /\ GetUsersRegister(1)
  \/ UNCHANGED <<csrfVars, storeVars>> /\ Quiet /\ MutateUser(1)
  \/ UNCHANGED <<csrfVars, storeVars>> /\ ~Settling /\ MutateInvalidate(1)
  \/ UNCHANGED <<csrfVars, queryVars, storeVars>> /\ ~Settling /\ \E o \in inflight : ApplyCall(o)
  \/ UNCHANGED <<csrfVars, queryVars, storeVars>> /\ now < Horizon /\ Tick
  \/ UNCHANGED <<csrfVars, queryVars, storeVars>> /\ Elapse

SpecQuerySerial == Init /\ [][NextQuerySerial]_vars

----------------------------------------------------------------------------
\* Properties of the registry and of the read-through cache.

\* listGroup("user") as a request arriving now reads it
UserQueryList == GetCachedQueryKeys(UserQueries, TRUE)

\* C15: registering a member that is already in the group leaves the list as
\* it was: when every register operation has settled, and no cache call has
\* failed, the member list of the group holds no key twice.
C15_NoDuplicates ==
  (Quiet /\ faults = 0) =>
    \A i, j \in 1..Len(UserQueryList) :
      i # j => UserQueryList[i] # UserQueryList[j]

\* C16: when a write handler's invalidateCachedQueries has settled without a
\* failed cache call, every member of the list it read has no cache entry,
\* and the group's list reads as empty.
C16_InvalidateGroup ==
  \A r \in Reqs :
    (/\ req[r].op = "mutateUser" /\ req[r].pc = "done"
     /\ InflightOf(r) = {} /\ ~req[r].fault) =>
      /\ \A k \in req[r].read : ~CacheHit(k)
      /\ UserQueryList = <<>>

\* two registered members, both cached, were invalidated
C16_Witness ==
  \E r \in Reqs :
    /\ req[r].op = "mutateUser" /\ req[r].pc = "done"
    /\ InflightOf(r) = {} /\ ~req[r].fault
    /\ req[r].snap = QueryKeys
    /\ \A k \in QueryKeys : ~CacheHit(k)

\* C17: a list query that arrives after a write handler has responded is not
\* answered from a cache entry built from rows read before that write (no
\* cache call having failed).
C17_NoStaleAnswer ==
  \A r \in Reqs :
    (/\ req[r].op = "getUsers" /\ req[r].status = 200
     /\ qry[r].from = "cache" /\ faults = 0) =>
      qry[r].served >= qry[r].since

\* C18: when no request is being served and no cache call has failed, the
\* key of every list-query entry present in the cache is a member of the
\* list under "user:queries".
C18_EntriesRegistered ==
  (Quiet /\ faults = 0) =>
    \A k \in QueryKeys : CacheHit(k) => k \in Members(UserQueryList)

\* C19: a list query whose cache get failed with an internal error, or
\* returned data that does not parse, is answered from the store; every list
\* query is answered 200, with the rows of the store when it did not take
\* them from the cache, whatever happens to its later set and registration.
C19_FailOpen ==
  \A r \in Reqs :
    req[r].op = "getUsers" =>
      /\ req[r].res \in {"internal error", "unparsable"} => qry[r].from = "db"
      /\ req[r].pc \in {"register", "done"} =>
           /\ req[r].status = 200
           /\ qry[r].from = "db" => qry[r].served = db

\* the cache returned data that does not parse, or an error, and the query
\* was answered from the store
C19_Witness ==
  \E r \in Reqs :
    /\ req[r].op = "getUsers" /\ req[r].pc = "done" /\ InflightOf(r) = {}
    /\ req[r].res \in {"internal error", "unparsable"}
    /\ req[r].status = 200 /\ qry[r].from = "db"

----------------------------------------------------------------------------
\* Properties of the credential codec.

TokenTypes == {"ACCESS_TOKEN", "REFRESH_TOKEN"}

InitialFields(payload) ==
  [id |-> payload.id, email |-> payload.email, name |-> payload.name,
   role |-> payload.role]

C22_ExpiredOrInvalid ==
  \A r \in Reqs :
    /\ req[r].op = "protected" =>
         /\ (req[r].form = "other" \/ req[r].vres = "JsonWebTokenError") =>
              /\ req[r].status = 401 /\ ~req[r].ran
              /\ req[r].msg = AuthErrorMessages.ACCESS_TOKEN_NOT_VALID_MESSAGE
         /\ req[r].vres = "TokenExpiredError" =>
              /\ req[r].status = 401 /\ ~req[r].ran
              /\ req[r].msg = AuthErrorMessages.ACCESS_TOKEN_EXPIRED
    /\ req[r].op = "refresh" =>
         /\ (req[r].rt = Undefined \/ req[r].vres = "JsonWebTokenError") =>
              /\ req[r].status = 401 /\ ~req[r].ran
              /\ req[r].msg = AuthErrorMessages.REFRESH_TOKEN_NOT_VALID_MESSAGE
         /\ req[r].vres = "TokenExpiredError" =>
              /\ req[r].status = 401 /\ ~req[r].ran
              /\ req[r].msg = AuthErrorMessages.REFRESH_TOKEN_EXPIRED

\* an access token that has expired while its cache entry is still present
\* is answered with the 'expired' message
C22_Witness ==
  \E r \in Reqs :
    /\ req[r].op = "protected" /\ req[r].vres = "TokenExpiredError"
    /\ CacheHit(req[r].at)
    /\ req[r].status = 401 /\ req[r].msg = AuthErrorMessages.ACCESS_TOKEN_EXPIRED

\* C23: the handler of an admin-only route runs only for a request whose
\* access token passed checkAccessToken (it verifies and its cache lookup is
\* a hit) and whose role claim is ADMIN; when checkAdmin reads any other
\* role it answers 403 and the handler does not run.
C23_AdminOnly ==
  \A r \in Reqs :
    req[r].op = "admin" =>
      /\ req[r].ran =>
           /\ req[r].form = "bearer" /\ req[r].vres = "ok" /\ req[r].res = "cache hit"
           /\ req[r].role = "ADMIN"
           /\ minted[req[r].at].role = "ADMIN"
      /\ req[r].role \notin {"-", "ADMIN"} =>
           /\ req[r].status = 403 /\ req[r].msg = AdminErrorMessage
           /\ ~req[r].ran

\* a plain user's access token passes checkAccessToken and is turned away
\* by checkAdmin
C23_Witness ==
  \E r \in Reqs :
    /\ req[r].op = "admin" /\ req[r].vres = "ok" /\ req[r].res = "cache hit"
    /\ req[r].role = "USER"
    /\ req[r].status = 403 /\ ~req[r].ran

\* C24: every cache entry keyed by an access token was written with the
\* access lifetime: it expires AccessLife after the token was signed,
\* whether login or refresh signed it.
C24_AccessEntryLifetime ==
  \A a \in Tokens("ACCESS_TOKEN") :
    a \in DOMAIN cache => cache[a].exp = minted[a].iat + AccessLife

\* C25: refresh does not rotate the refresh token: once a refresh that
\* answered 200 has settled, with no cache call having failed, the cache entry
\* of its refresh token and the session list of its user are as the guard
\* found them, and the same refresh token passes the refresh guard again.
C25_NoRotation ==
  \A r \in Reqs :
    (/\ req[r].op = "refresh" /\ req[r].pc = "done" /\ req[r].status = 200
     /\ InflightOf(r) = {} /\ faults = 0) =>
      /\ CacheHit(req[r].rt)
      /\ req[r].rt \in Members(GetCachedQueryKeys(SessionField(req[r].sub), TRUE))
      /\ RefreshWouldPass(req[r].rt)

\* C26: once a refresh that was sent an access token in the authorization
\* header has settled without a failed cache call, that token has no cache
\* entry and fails checkAccessToken; refresh answers 200 with a new access
\* token exactly when the write of the new token's entry succeeds, and what
\* becomes of the delete does not change its answer.
C26_OldAccessDeleted ==
  /\ [](\A r \in Reqs :
          (/\ req[r].op = "refresh" /\ req[r].pc = "done" /\ InflightOf(r) = {}
           /\ ~req[r].fault
           /\ req[r].old \in Tokens("ACCESS_TOKEN")) =>
            /\ req[r].old \notin DOMAIN cache
            /\ ~AccessWouldPass(req[r].old))
  /\ [][/\ \A r \in Reqs :
             (req[r].op = "refresh" /\ req[r].pc = "handler" /\ req'[r].pc = "done") =>
               /\ req'[r].status = 200 <=> faults' = faults
               /\ req'[r].status = 200 => req'[r].at \in Tokens("ACCESS_TOKEN")'
        /\ \A o \in inflight :
             (req[o.rid].op = "refresh" /\ inflight' = inflight \ {o}) =>
               /\ req'[o.rid].status = req[o.rid].status
               /\ req'[o.rid].at = req[o.rid].at]_vars

\* a refresh has deleted the entry of an issued access token that has not
\* expired, and has answered with a new one
C26_Witness ==
  \E r \in Reqs :
    /\ req[r].op = "refresh" /\ req[r].pc = "done" /\ InflightOf(r) = {}
    /\ req[r].status = 200 /\ ~req[r].fault
    /\ req[r].old \in issued /\ req[r].old \in Tokens("ACCESS_TOKEN")
    /\ JwtVerify("ACCESS_TOKEN", req[r].old) = "ok"
    /\ req[r].old \notin DOMAIN cache
    /\ AccessWouldPass(req[r].at)

----------------------------------------------------------------------------
\* The global error handler on its own: every request starts as an error
\* that a handler or a guard has passed to next(error).

ErrorClasses ==
  {"ZodError", "MemcachedMethodError", "PrismaError", "JsonWebTokenError",
   "TokenExpiredError", "ERR_CRYPTO", "ErrnoException", "Error", "TypeError",
   "thrown value"}

\* what an error object carries: its message and, for a cache error, the
\* reason
ErrorPayloads ==
  {[message |-> "internal error", reason |-> "Error: connect ECONNREFUSED 127.0.0.1:11211"],
   [message |-> "Invalid prisma.user.findFirst() invocation", reason |-> "-"]}

ErrorObjects ==
  {[class |-> c, message |-> p.message, reason |-> p.reason] :
     c \in ErrorClasses, p \in ErrorPayloads}

InitError ==
  /\ cache = <<>>
  /\ minted = <<>>
  /\ now = 0
  /\ req \in [Reqs -> {[IdleReq EXCEPT !.op = "failing", !.pc = "error", !.err = e] :
                         e \in ErrorObjects}]
  /\ inflight = {}
  /\ faults = 0
  /\ issued = {}
  /\ expelled = {}
  /\ revoked = {}
  /\ handed = <<>>
  /\ hdr = [r \in Reqs |-> NoHeaders]
  /\ db = 0
  /\ acked = 0
  /\ qry = [r \in Reqs |-> NoQuery]
  /\ users = SeedUsers
  /\ tx = [id \in TxIds |-> NoTransaction]

\* errorHandler: status 500, the log line and the body
HandleError(r) ==
  /\ req[r].pc = "error"
  /\ req' = [req EXCEPT ![r] =
               [Respond(@, 500, ErrorBody(@.err).message) EXCEPT
                  !.body = ErrorBody(req[r].err),
                  !.log = LogError("/auth/login", req[r].err,
                                   ErrorHandlerKnown(req[r].err.class))]]
  /\ UNCHANGED <<cache, minted, now, inflight, faults, issued, expelled, revoked,
                 csrfVars, queryVars, storeVars>>

NextError == \E r \in Reqs : HandleError(r)

SpecError == InitError /\ [][NextError]_vars

GenericErrorMessages == {ErrorHandlerMessage(c) : c \in ErrorClasses}

----------------------------------------------------------------------------
\* The registry under concurrent list queries for different keys and one
\* write to the user table, the cache answering every call.

MaxInvalidations == 1

\* the steps of the request in slot r, and the cache's answers to its calls
RegistryArrive(r) ==
  /\ ~Settling /\ faults' = faults
  /\ \E k \in QueryKeys : GetUsersData(r, k)
  /\ UNCHANGED <<csrfVars, storeVars>>

RegistryFromDb(r) == ~Settling /\ GetUsersFromDb(r) /\ UNCHANGED <<csrfVars, storeVars>>

RegistryRegister(r) ==
  ~Settling /\ faults' = faults /\ GetUsersRegister(r) /\ UNCHANGED <<csrfVars, storeVars>>

RegistryMutate(r) ==
  ~Settling /\ db < MaxInvalidations /\ MutateUser(r) /\ UNCHANGED <<csrfVars, storeVars>>

RegistryInvalidate(r) ==
  ~Settling /\ faults' = faults /\ MutateInvalidate(r) /\ UNCHANGED <<csrfVars, storeVars>>

RegistryApply(r) ==
  /\ ~Settling /\ faults' = faults
  /\ \E o \in InflightOf(r) : ApplyCall(o)
  /\ UNCHANGED <<csrfVars, queryVars, storeVars>>

RegistryRetire(r) == QueryRetire(r) /\ UNCHANGED <<csrfVars, storeVars>>

NextRegistry ==
  \/ \E r \in Reqs : RegistryRetire(r)
  \/ \E r \in Reqs : RegistryArrive(r)
  \/ \E r \in Reqs : RegistryFromDb(r)
  \/ \E r \in Reqs : RegistryRegister(r)
  \/ \E r \in Reqs : RegistryMutate(r)
  \/ \E r \in Reqs : RegistryInvalidate(r)
  \/ \E r \in Reqs : RegistryApply(r)

SpecRegistry == Init /\ [][NextRegistry]_vars

\* the list-query keys whose entry is in the cache
CachedQueries == {k \in QueryKeys : CacheHit(k)}

\* C28: two registerCachedQueryKey calls on one group can lose an append.
\* When no request is being served and nothing has been invalidated, the
\* list under "user:queries" holds at least one of the keys that were cached
\* and registered, and holds no other key; it need not hold all of them (the
\* witness).
C28_LostAppend ==
  (Quiet /\ db = 0 /\ CachedQueries # {}) =>
    /\ Members(UserQueryList) # {}
    /\ Members(UserQueryList) \subseteq CachedQueries

\* both list queries were cached and registered, no invalidation has run,
\* and the list holds only one of the two keys
C28_Witness ==
  /\ Quiet /\ db = 0 /\ faults = 0
  /\ CachedQueries = QueryKeys
  /\ Cardinality(Members(UserQueryList)) = 1

\* the keys of the cache calls that a step has issued
IssuedKeys == {o.key : o \in inflight' \ inflight}

\* C29: invalidateCachedQueries acts on the list it read at its start: the
\* deletes it issues are those of the members it read and of the list, and
\* none for a key that is registered later; a list that reads as empty makes
\* it issue nothing.
C29_ActsOnListRead ==
  [][\A r \in Reqs :
       (req[r].op = "mutateUser" /\ req[r].pc = "invalidate" /\ req'[r].pc = "done") =>
         /\ req'[r].read = Members(UserQueryList)
         /\ IssuedKeys = IF req'[r].read = {} THEN {}
                         ELSE req'[r].read \cup {GroupKey(UserQueries)}
         /\ \A o \in inflight' \ inflight : o.op = "del" /\ o.rid = r]_vars

\* every delete of an invalidation that read a list has been run, and the
\* entry of a key that was not in that list, cached and registered by a
\* request that is still in its slot, is in the cache
C29_Witness ==
  \E r, q \in Reqs :
    /\ req[r].op = "mutateUser" /\ req[r].pc = "done" /\ InflightOf(r) = {}
    /\ req[r].read # {}
    /\ req[q].op = "getUsers" /\ qry[q].from = "db" /\ req[q].pc = "done"
    /\ qry[q].key \notin req[r].read
    /\ CacheHit(qry[q].key)

\* Every handler goes on to its next step and the cache answers every call
\* it was sent; when requests arrive is up to the clients.
RegistryFairness ==
  \A r \in Reqs :
    /\ SF_vars(RegistryFromDb(r))
    /\ SF_vars(RegistryRegister(r))
    /\ SF_vars(RegistryInvalidate(r))
    /\ SF_vars(RegistryApply(r))
    /\ SF_vars(RegistryRetire(r))

\* The registry under load from two clients: the client of slot r repeats
\* one list query (a hit takes no registry step, so only its misses are
\* followed) and the client of slot 1 also creates users.
SlotQuery(r) == IF r = 1 THEN "user:email:0:10" ELSE "user:name:0:10"

MissArrive(r) ==
  /\ ~Settling /\ faults' = faults
  /\ ~CacheHit(SlotQuery(r)) /\ GetUsersData(r, SlotQuery(r))
  /\ UNCHANGED <<csrfVars, storeVars>>

NextMiss ==
  \/ \E r \in Reqs : RegistryRetire(r)
  \/ \E r \in Reqs : MissArrive(r)
  \/ \E r \in Reqs : RegistryFromDb(r)
  \/ \E r \in Reqs : RegistryRegister(r)
  \/ RegistryMutate(1)
  \/ \E r \in Reqs : RegistryInvalidate(r)
  \/ \E r \in Reqs : RegistryApply(r)

SpecMiss == Init /\ [][NextMiss]_vars

SpecMissFair == SpecMiss /\ RegistryFairness

\* the invalidation in slot r has read the members in read and none of its
\* deletes has been run yet
JustInvalidated(r, read) ==
  /\ req[r].op = "mutateUser" /\ req[r].pc = "done"
  /\ req[r].read = read
  /\ Cardinality(InflightOf(r)) = Cardinality(read) + 1

\* every registration of key k is followed by a state in which the list
\* under "user:queries" contains k
EventuallyListed ==
  \A r \in Reqs, k \in QueryKeys :
    (req[r].op = "getUsers" /\ req[r].pc = "register" /\ qry[r].key = k)
      ~> (k \in Members(UserQueryList))

----------------------------------------------------------------------------
\* The registry helpers and the cache client called on their own, for every
\* content of the keys they read.

MaxLen == 3

\* a stored text that JSON.parse rejects (the text of a list is modelled by
\* the list; this one-element value stands for any text that is no JSON)
NotJson == <<"<not json>">>

\* JSON.parse(text) throws a SyntaxError
JsonParseThrows(text) == text = NotJson

\* z.array(z.string()).min(1) accepts the parsed value
NonEmptyStringArray(text) == ~JsonParseThrows(text) /\ Len(text) >= 1

\* the key of a plain entry next to the list
PlainKey == "user:u1"

\* `!data` in the callback of memcachedDefault.get: no entry, or an empty text
NoData(key) ==
  \/ ~CacheHit(key)
  \/ key = PlainKey /\ cache[key].val = ""

\* memcached.get: how its promise settles
Get(key, up) ==
  IF ~up THEN [settled |-> "rejected", class |-> "MemcachedMethodError",
               message |-> "internal error", result |-> NoValue]
  ELSE IF NoData(key)
    THEN [settled |-> "rejected", class |-> "MemcachedMethodError",
          message |-> "cache miss", result |-> NoValue]
  ELSE [settled |-> "resolved", class |-> "-", message |-> "cache hit",
        result |-> cache[key].val]

\* getCachedQueryKeys with its JSON.parse: the list, or the error it raises
GetCachedQueryKeysParsed(field, up) ==
  IF Get(GroupKey(field), up).settled = "rejected"
    THEN [raised |-> FALSE, class |-> "-", result |-> <<>>]
  ELSE IF JsonParseThrows(cache[GroupKey(field)].val)
    THEN [raised |-> TRUE, class |-> "SyntaxError", result |-> <<>>]
  ELSE [raised |-> FALSE, class |-> "-", result |-> cache[GroupKey(field)].val]

\* an erasure that writes the list back as it read it
EraseKeepingAll(r, field, cacheKey, up) ==
  IF Get(GroupKey(field), up).settled = "rejected" THEN {}
  ELSE LET text == cache[GroupKey(field)].val IN
       IF ~NonEmptyStringArray(text) THEN {}
       ELSE {Call(r, "set", GroupKey(field), text, DurationSuper)}

\* eraseCachedQueryKey: the write it issues (none when the get rejects, the
\* text does not parse or the list is empty)
EraseCachedQueryKey(r, field, cacheKey, up) ==
  IF Get(GroupKey(field), up).settled = "rejected" THEN {}
  ELSE LET text == cache[GroupKey(field)].val IN
       IF ~NonEmptyStringArray(text) THEN {}
       ELSE {Call(r, "set", GroupKey(field),
                  SelectSeq(text, LAMBDA value : value # cacheKey), DurationSuper)}

\* the lists over the query keys, up to MaxLen long
RECURSIVE ListsUpTo(_)
ListsUpTo(n) ==
  IF n = 0 THEN {<<>>}
  ELSE ListsUpTo(n - 1) \cup
       {Append(l, k) : l \in {x \in ListsUpTo(n - 1) : Len(x) = n - 1}, k \in QueryKeys}

\* what the list key and the plain key may hold when a helper is called
StoredLists == ListsUpTo(MaxLen) \cup {NotJson}
StoredTexts == {"", "u1"}

Entry(value) == [val |-> value, exp |-> DurationSuper]

InitHelpers ==
  /\ \E lists \in SUBSET StoredLists, texts \in SUBSET StoredTexts :
       /\ Cardinality(lists) <= 1 /\ Cardinality(texts) <= 1
       /\ cache = [k \in (IF lists = {} THEN {} ELSE {GroupKey(UserQueries)})
                           \cup (IF texts = {} THEN {} ELSE {PlainKey}) |->
                     IF k = PlainKey THEN Entry(CHOOSE t \in texts : TRUE)
                     ELSE Entry(CHOOSE l \in lists : TRUE)]
  /\ minted = <<>>
  /\ now = 0
  /\ req = [r \in Reqs |-> IdleReq]
  /\ inflight = {}
  /\ faults = 0
  /\ issued = {}
  /\ expelled = {}
  /\ revoked = {}
  /\ handed = <<>>
  /\ hdr = [r \in Reqs |-> NoHeaders]
  /\ db = 0
  /\ acked = 0
  /\ qry = [r \in Reqs |-> NoQuery]
  /\ users = SeedUsers
  /\ tx = [id \in TxIds |-> NoTransaction]

\* the content of the list key as a caller of eraseCachedQueryKey finds it
ListText == IF CacheHit(GroupKey(UserQueries)) THEN cache[GroupKey(UserQueries)].val ELSE <<>>

\* a call of eraseCachedQueryKey(queryKeys.user, cacheKey)
EraseMember(r, cacheKey) ==
  /\ Free(r)
  /\ \E up \in FaultChoices :
       /\ CountFault(up)
       /\ inflight' = inflight \cup EraseCachedQueryKey(r, UserQueries, cacheKey, up)
       /\ req' = [req EXCEPT ![r] =
                    [IdleReq EXCEPT !.op = "eraseMember", !.pc = "done", !.fault = ~up,
                       !.form = cacheKey,
                       !.res = Get(GroupKey(UserQueries), up).message,
                       !.body = ListText]]
  /\ UNCHANGED <<cache, minted, now, issued, expelled, revoked, csrfVars, queryVars, storeVars>>

\* a call of getCachedQueryKeys(queryKeys.user)
ListGroup(r) ==
  /\ Free(r)
  /\ \E up \in FaultChoices :
       /\ CountFault(up)
       /\ LET out == GetCachedQueryKeysParsed(UserQueries, up) IN
          req' = [req EXCEPT ![r] =
                    [IdleReq EXCEPT !.op = "listGroup", !.pc = "done", !.fault = ~up,
                       !.res = Get(GroupKey(UserQueries), up).message,
                       !.msg = IF out.raised THEN "raised" ELSE "returned",
                       !.body = out.result]]
  /\ UNCHANGED <<cache, minted, now, inflight, issued, expelled, revoked,
                 csrfVars, queryVars, storeVars>>

\* a call of memcached.get(key)
GetKey(r, key) ==
  /\ Free(r)
  /\ \E up \in FaultChoices :
       /\ CountFault(up)
       /\ LET out == Get(key, up) IN
          req' = [req EXCEPT ![r] =
                    [IdleReq EXCEPT !.op = "get", !.pc = "done", !.fault = ~up,
                       !.form = key,
                       !.res = out.message,
                       !.msg = out.settled,
                       !.body = out.result,
                       !.listed = CacheHit(key)]]
  /\ UNCHANGED <<cache, minted, now, inflight, issued, expelled, revoked,
                 csrfVars, queryVars, storeVars>>

\* The helpers, one call at a time.
NextHelpers ==
  \/ UNCHANGED <<csrfVars, queryVars, storeVars>> /\ Retire(1)
  \/ Quiet /\ \E cacheKey \in QueryKeys : EraseMember(1, cacheKey)
  \/ Quiet /\ ListGroup(1)
  \/ Quiet /\ GetKey(1, PlainKey)
  \/ UNCHANGED <<csrfVars, queryVars, storeVars>> /\ ~Settling /\ \E o \in inflight : ApplyCall(o)
  \/ UNCHANGED <<csrfVars, queryVars, storeVars>> /\ Tick

SpecHelpers == InitHelpers /\ [][NextHelpers]_vars

----------------------------------------------------------------------------
\* Properties of the helpers.

\* list without its occurrences of member, the others in their order
RECURSIVE Without(_, _)
Without(list, member) ==
  IF list = <<>> THEN <<>>
  ELSE IF Head(list) = member THEN Without(Tail(list), member)
  ELSE <<Head(list)>> \o Without(Tail(list), member)

\* the call in slot r has been answered, and so have the cache calls it issued
SettledCall(r, op) ==
  req[r].op = op /\ req[r].pc = "done" /\ InflightOf(r) = {} /\ ~req[r].fault

\* C31: eraseCachedQueryKey(field, cacheKey) leaves under the list key the
\* list it read without any occurrence of cacheKey and with the other members
\* in their order; it issues no write when the list key is absent, and neither
\* the call nor its write changes any other key.
C31_EraseMember ==
  /\ [](\A r \in Reqs :
          (SettledCall(r, "eraseMember") /\ req[r].res = "cache hit"
             /\ NonEmptyStringArray(req[r].body))
            => /\ CacheHit(GroupKey(UserQueries))
               /\ cache[GroupKey(UserQueries)].val = Without(req[r].body, req[r].form))
  /\ [][\A r \in Reqs :
          (req[r].op = "idle" /\ req'[r].op = "eraseMember")
            => /\ cache' = cache
               /\ \A o \in inflight' \ inflight :
                    o.op = "set" /\ o.key = GroupKey(UserQueries)
               /\ ~CacheHit(GroupKey(UserQueries)) => inflight' = inflight]_vars
  /\ [][\A o \in inflight \ inflight' :
          req[o.rid].op = "eraseMember"
            => \A k \in (DOMAIN cache \cup DOMAIN cache') \ {GroupKey(UserQueries)} :
                 k \in DOMAIN cache /\ k \in DOMAIN cache' /\ cache'[k] = cache[k]]_vars

\* an erasure of a member that was listed twice, next to another member and
\* to a plain entry, has been written back
C31_Witness ==
  \E r \in Reqs :
    /\ SettledCall(r, "eraseMember")
    /\ Len(req[r].body) = 3
    /\ Cardinality({i \in 1..3 : req[r].body[i] = req[r].form}) = 2
    /\ CacheHit(GroupKey(UserQueries))
    /\ Len(cache[GroupKey(UserQueries)].val) = 1
    /\ CacheHit(PlainKey)

C33_MissIsAValue ==
  \A r \in Reqs :
    req[r].op = "get"
      => /\ req[r].res = "cache miss" => req[r].msg = "resolved"
         /\ req[r].listed /\ ~req[r].fault => req[r].res = "cache hit"

----------------------------------------------------------------------------
\* The user table behind getUserData, editUser and deleteUser (UserHandlers).
\* A handler step is the code between two awaited calls to the cache or to
\* the table.

MaxEdits == 3

\* writes to the user table so far
Edits == users["u1"].ver + users["u2"].ver

\* prisma.user.count({ where: { role: "ADMIN" } })
AdminCount == Cardinality({u \in Users : users[u].there /\ users[u].role = "ADMIN"})

\* the decoded payload of the access token the request carries
Requesters == {[id |-> "u1", role |-> "ADMIN"], [id |-> "u2", role |-> "USER"]}

\* the role in the body of an update; Undefined when the body leaves it out
BodyRoles == {"ADMIN", "USER", Undefined}

\* JSON.stringify(userSafeNoIDSchema.parse(row)), with the number of the write
\* that made the row
CachedUser(row) == [role |-> row.role, ver |-> row.ver]

\* the request in slot r has responded: its write is the latest completed one
Complete(tbl, id, ver) ==
  [tbl EXCEPT ![id].acked = IF ver > @ THEN ver ELSE @]

\* getUserData up to the answer from the cache
GetUserData(r, id, requester) ==
  /\ Free(r)
  /\ \E answer \in QueryAnswers :
       LET cacheKey == UserKey(id)
           found == QueryGet(cacheKey, answer)
           rec == [IdleReq EXCEPT !.op = "getUser", !.sub = id, !.res = found,
                     !.fault = answer # "ok"]
       IN IF requester.id # id /\ requester.role # "ADMIN"
          THEN /\ answer = "ok"
               /\ req' = [req EXCEPT ![r] =
                            Respond([rec EXCEPT !.res = "-"], 403,
                                    "admin role needed to get other id's resource")]
               /\ UNCHANGED <<inflight, faults, qry>>
          ELSE /\ answer = "unparsable" => CacheHit(cacheKey)
               /\ faults' = IF answer = "ok" THEN faults ELSE faults + 1
               /\ IF found = "cache hit"
                  THEN /\ inflight' = inflight \cup
                            {Call(r, "touch", cacheKey, NoValue, DurationShort)}
                       /\ req' = [req EXCEPT ![r] = Respond(rec, 200, "user found")]
                       /\ qry' = [qry EXCEPT ![r] =
                                    [key |-> cacheKey, since |-> users[id].acked,
                                     served |-> cache[cacheKey].val.ver, from |-> "cache"]]
                  ELSE /\ inflight' = inflight
                       /\ req' = [req EXCEPT ![r] = [rec EXCEPT !.pc = "db"]]
                       /\ qry' = [qry EXCEPT ![r] =
                                    [key |-> cacheKey, since |-> users[id].acked,
                                     served |-> 0, from |-> "db"]]
  /\ UNCHANGED <<cache, minted, now, issued, expelled, revoked, db, acked, csrfVars, storeVars>>

\* getUserData from prisma.user.findFirst to the response
GetUserFromDb(r) ==
  /\ req[r].op = "getUser" /\ req[r].pc = "db"
  /\ IF ~users[req[r].sub].there
     THEN /\ req' = [req EXCEPT ![r] = Respond(@, 404, "user with given id not found")]
          /\ UNCHANGED <<inflight, qry>>
     ELSE /\ inflight' = inflight \cup
               {Call(r, "set", qry[r].key, CachedUser(users[req[r].sub]), DurationShort)}
          /\ req' = [req EXCEPT ![r] = Respond(@, 200, "user found")]
          /\ qry' = [qry EXCEPT ![r].served = users[req[r].sub].ver]
  /\ UNCHANGED <<cache, minted, now, faults, issued, expelled, revoked, db, acked,
                 csrfVars, storeVars>>

\* editUser from the parse of the request to prisma.user.findFirst
EditUser(r, id, requester, role) ==
  /\ Free(r)
  /\ LET rec == [IdleReq EXCEPT !.op = "editUser", !.sub = id, !.form = role,
                   !.role = requester.role]
     IN req' = [req EXCEPT ![r] =
          IF requester.id # id /\ requester.role # "ADMIN"
            THEN Respond(rec, 403, "admin role needed to update other id's resource")
          ELSE IF requester.role # "ADMIN" /\ role = "ADMIN"
            THEN Respond(rec, 403, "admin role needed to update other id's role to admin")
          ELSE IF ~users[id].there
            THEN Respond(rec, 404, "user with given id not found")
          ELSE [rec EXCEPT !.body = users[id],
                  !.pc = IF users[id].role = "ADMIN" /\ role = "USER"
                         THEN "count" ELSE "update"]]
  /\ UNCHANGED <<cache, minted, now, inflight, faults, issued, expelled, revoked,
                 csrfVars, queryVars, storeVars>>

\* the check of prisma.user.count: whether the write may go on
EnoughAdmins(count) == ~(count <= 1)

\* editUser: prisma.user.count when an admin is made a user
EditUserCount(r) ==
  /\ req[r].op = "editUser" /\ req[r].pc = "count"
  /\ req' = [req EXCEPT ![r] =
               IF EnoughAdmins(AdminCount) THEN [@ EXCEPT !.pc = "update"]
               ELSE Respond(@, 409, "there must be at least one admin")]
  /\ UNCHANGED <<cache, minted, now, inflight, faults, issued, expelled, revoked,
                 csrfVars, queryVars, storeVars>>

\* editUser: prisma.user.update, which fails when the row is gone
EditUserUpdate(r) ==
  /\ req[r].op = "editUser" /\ req[r].pc = "update"
  /\ Edits < MaxEdits
  /\ LET id == req[r].sub
         row == [users[id] EXCEPT
                   !.role = IF req[r].form # Undefined THEN req[r].form ELSE req[r].body.role,
                   !.ver = Edits + 1]
     IN IF users[id].there
        THEN /\ users' = [users EXCEPT ![id] = row]
             /\ req' = [req EXCEPT ![r] = [@ EXCEPT !.pc = "invalidate", !.body = row]]
        ELSE /\ users' = users
             /\ req' = [req EXCEPT ![r] = ErrorHandler(@, "PrismaError")]
  /\ UNCHANGED <<cache, minted, now, inflight, faults, issued, expelled, revoked,
                 csrfVars, queryVars, tx>>

\* editUser: `await invalidateCachedQueries(queryKeys.user)`, the write of
\* the row to the cache, not awaited, and the response
EditUserInvalidate(r) ==
  /\ req[r].op = "editUser" /\ req[r].pc = "invalidate"
  /\ \E up \in FaultChoices :
       /\ CountFault(up)
       /\ inflight' = inflight
            \cup InvalidateCachedQueries(r, UserQueries, up)
            \cup {Call(r, "set", UserKey(req[r].sub), CachedUser(req[r].body), DurationShort)}
       /\ req' = [req EXCEPT ![r] = Respond([@ EXCEPT !.fault = ~up], 200, "user updated")]
       /\ users' = Complete(users, req[r].sub, req[r].body.ver)
  /\ UNCHANGED <<cache, minted, now, issued, expelled, revoked, csrfVars, queryVars, tx>>

\* deleteUser up to the role it takes from the cached row
DeleteUser(r, id) ==
  /\ Free(r)
  /\ \E answer \in QueryAnswers :
       LET cacheKey == UserKey(id)
           found == QueryGet(cacheKey, answer)
           rec == [IdleReq EXCEPT !.op = "deleteUser", !.sub = id, !.res = found,
                     !.fault = answer # "ok"]
       IN /\ answer = "unparsable" => CacheHit(cacheKey)
          /\ faults' = IF answer = "ok" THEN faults ELSE faults + 1
          /\ req' = [req EXCEPT ![r] =
                       IF found = "cache hit"
                       THEN [rec EXCEPT !.body = cache[cacheKey].val,
                               !.pc = IF cache[cacheKey].val.role = "ADMIN"
                                      THEN "count" ELSE "delete"]
                       ELSE [rec EXCEPT !.pc = "db"]]
  /\ UNCHANGED <<cache, minted, now, inflight, issued, expelled, revoked,
                 csrfVars, queryVars, storeVars>>

\* deleteUser: prisma.user.findFirst after a miss
DeleteUserFind(r) ==
  /\ req[r].op = "deleteUser" /\ req[r].pc = "db"
  /\ LET row == users[req[r].sub] IN
     req' = [req EXCEPT ![r] =
               IF ~row.there THEN Respond(@, 404, "user with given id not found")
               ELSE [@ EXCEPT !.body = CachedUser(row),
                       !.pc = IF row.role = "ADMIN" THEN "count" ELSE "delete"]]
  /\ UNCHANGED <<cache, minted, now, inflight, faults, issued, expelled, revoked,
                 csrfVars, queryVars, storeVars>>

\* deleteUser: prisma.user.count when the role it read is ADMIN
DeleteUserCount(r) ==
  /\ req[r].op = "deleteUser" /\ req[r].pc = "count"
  /\ req' = [req EXCEPT ![r] =
               IF EnoughAdmins(AdminCount) THEN [@ EXCEPT !.pc = "delete"]
               ELSE Respond(@, 409, "there must be at least one admin")]
  /\ UNCHANGED <<cache, minted, now, inflight, faults, issued, expelled, revoked,
                 csrfVars, queryVars, storeVars>>

\* deleteUser: prisma.user.delete, which fails when the row is gone
DeleteUserDelete(r) ==
  /\ req[r].op = "deleteUser" /\ req[r].pc = "delete"
  /\ Edits < MaxEdits
  /\ LET id == req[r].sub IN
     IF users[id].there
     THEN /\ users' = [users EXCEPT ![id].there = FALSE, ![id].ver = Edits + 1]
          /\ req' = [req EXCEPT ![r] = [@ EXCEPT !.pc = "invalidate", !.ran = TRUE]]
     ELSE /\ users' = users
          /\ req' = [req EXCEPT ![r] = ErrorHandler(@, "PrismaError")]
  /\ UNCHANGED <<cache, minted, now, inflight, faults, issued, expelled, revoked,
                 csrfVars, queryVars, tx>>

\* deleteUser: `await invalidateCachedQueries(queryKeys.user)`
DeleteUserInvalidate(r) ==
  /\ req[r].op = "deleteUser" /\ req[r].pc = "invalidate"
  /\ \E up \in FaultChoices :
       /\ CountFault(up)
       /\ inflight' = inflight \cup InvalidateCachedQueries(r, UserQueries, up)
       /\ req' = [req EXCEPT ![r] = [@ EXCEPT !.pc = "sessions", !.fault = @ \/ ~up]]
  /\ UNCHANGED <<cache, minted, now, issued, expelled, revoked, csrfVars, queryVars, storeVars>>

\* deleteUser: `await invalidateCachedQueries(queryKeys.session(id))`, the
\* delete of the cached row, not awaited, and the response
DeleteUserSessions(r) ==
  /\ req[r].op = "deleteUser" /\ req[r].pc = "sessions"
  /\ \E up \in FaultChoices :
       /\ CountFault(up)
       /\ inflight' = inflight
            \cup InvalidateCachedQueries(r, SessionField(req[r].sub), up)
            \cup {Call(r, "del", UserKey(req[r].sub), NoValue, 0)}
       /\ req' = [req EXCEPT ![r] = Respond([@ EXCEPT !.fault = @ \/ ~up], 200, "user deleted")]
       /\ users' = Complete(users, req[r].sub, users[req[r].sub].ver)
  /\ UNCHANGED <<cache, minted, now, issued, expelled, revoked, csrfVars, queryVars, tx>>

\* Requests to the rows of the user table, served concurrently, while the
\* cache answers every call.
NextStore ==
  \/ UNCHANGED <<csrfVars, storeVars>> /\ \E r \in Reqs : QueryRetire(r)
  \/ ~Settling /\ faults' = faults /\ \E r \in Reqs, id \in Users, requester \in Requesters :
                    GetUserData(r, id, requester)
  \/ ~Settling /\ faults' = faults /\ \E r \in Reqs : GetUserFromDb(r)
  \/ ~Settling /\ faults' = faults /\ \E r \in Reqs, id \in Users, requester \in Requesters, role \in BodyRoles :
                    EditUser(r, id, requester, role)
  \/ ~Settling /\ faults' = faults /\ \E r \in Reqs : EditUserCount(r)
  \/ ~Settling /\ faults' = faults /\ \E r \in Reqs : EditUserUpdate(r)
  \/ ~Settling /\ faults' = faults /\ \E r \in Reqs : EditUserInvalidate(r)
  \/ ~Settling /\ faults' = faults /\ \E r \in Reqs, id \in Users : DeleteUser(r, id)
  \/ ~Settling /\ faults' = faults /\ \E r \in Reqs : DeleteUserFind(r)
  \/ ~Settling /\ faults' = faults /\ \E r \in Reqs : DeleteUserCount(r)
  \/ ~Settling /\ faults' = faults /\ \E r \in Reqs : DeleteUserDelete(r)
  \/ ~Settling /\ faults' = faults /\ \E r \in Reqs : DeleteUserInvalidate(r)
  \/ ~Settling /\ faults' = faults /\ \E r \in Reqs : DeleteUserSessions(r)
  \/ UNCHANGED <<csrfVars, queryVars, storeVars>> /\ ~Settling /\ faults' = faults /\ \E o \in inflight : ApplyCall(o)

SpecStore == Init /\ [][NextStore]_vars

\* C34: the user table holds at least one admin in every reachable state.
C34_AtLeastOneAdmin == AdminCount >= 1

----------------------------------------------------------------------------
\* C35: every guard that has run for a request ended with exactly one
\* outcome: one call of next (with or without an error) or one response.
C35_ExactlyOneOutcome ==
  \A r \in Reqs :
    \A i \in 1..Len(req[r].outs) : Len(req[r].outs[i]) = 1

----------------------------------------------------------------------------
\* Roles: login, refresh, the admin-only routes and editUser, served one
\* request at a time with every cache call answered.

\* PUT /users/:id behind checkAccessToken: the requester is the decoded
\* payload of the access token that passed the guard
EditUserAs(r, accessToken, id, role) ==
  /\ CheckAccessToken(AuthHeader(<<"Bearer", accessToken>>), TRUE).ran
  /\ EditUser(r, id, [id |-> JwtDecode(accessToken).id,
                      role |-> JwtDecode(accessToken).role], role)

NextRole ==
  \/ UNCHANGED <<csrfVars, storeVars>> /\ QueryRetire(1)
  \/ UNCHANGED <<csrfVars, queryVars, storeVars>> /\ Quiet /\ faults' = faults
       /\ \E u \in Users : LoginStart(1, u)
  \/ UNCHANGED <<csrfVars, queryVars, storeVars>> /\ ~Settling /\ faults' = faults
       /\ LoginRegisterSession(1)
  \/ UNCHANGED <<csrfVars, queryVars, storeVars>> /\ ~Settling /\ faults' = faults
       /\ LoginFinish(1)
  \/ UNCHANGED <<csrfVars, queryVars, storeVars>> /\ Quiet /\ faults' = faults
       /\ \E xrt \in Tokens("REFRESH_TOKEN") : RefreshGuardToken(1, xrt)
  \/ UNCHANGED <<csrfVars, queryVars, storeVars>> /\ ~Settling /\ faults' = faults
       /\ RefreshGuardList(1)
  \/ UNCHANGED <<csrfVars, queryVars, storeVars>> /\ ~Settling /\ faults' = faults
       /\ \E auth \in OldAccessInputs : RefreshHandler(1, auth)
  \/ UNCHANGED <<csrfVars, queryVars, storeVars>> /\ Quiet /\ faults' = faults
       /\ \E accessToken \in Tokens("ACCESS_TOKEN") :
            AdminRoute(1, AuthHeader(<<"Bearer", accessToken>>))
  \/ Quiet /\ faults' = faults
       /\ \E accessToken \in Tokens("ACCESS_TOKEN"), id \in Users, role \in BodyRoles :
            EditUserAs(1, accessToken, id, role)
  \/ ~Settling /\ faults' = faults /\ EditUserCount(1)
  \/ ~Settling /\ faults' = faults /\ EditUserUpdate(1)
  \/ ~Settling /\ faults' = faults /\ EditUserInvalidate(1)
  \/ UNCHANGED <<csrfVars, queryVars, storeVars>> /\ ~Settling /\ faults' = faults
       /\ \E o \in inflight : ApplyCall(o)

SpecRole == Init /\ [][NextRole]_vars

\* C36: a request that passes the authority guard carries the access token of
\* a user whose row says ADMIN: once editUser has made an admin a user, none
\* of the tokens signed for that admin, or signed later by refresh from the
\* admin's refresh token, passes checkAdmin.
C36_DemotedTurnedAway ==
  \A r \in Reqs :
    (req[r].op = "admin" /\ req[r].ran) =>
      users[JwtDecode(req[r].at).id].role = "ADMIN"

\* C37: an answer getUserData takes from the cache entry 'user:<id>' is no
\* older than the last write to that user whose request had responded when
\* the lookup was made.
C37_NoStaleUser ==
  \A r \in Reqs :
    (req[r].op = "getUser" /\ qry[r].from = "cache") =>
      qry[r].served >= qry[r].since

----------------------------------------------------------------------------
----------------------------------------------------------------------------
\* Transactions (createTransaction, editTransaction, countSums), requests
\* served concurrently while the cache answers every call.

MaxQuantity == 1
MaxTxWrites == 3

\* the product table: code -> price
SeedProducts == ("A" :> 37) @@ ("B" :> 100)

\* the relId a client gives to a product line
RelIds == {"r1", "r2"}

\* a product line of a request body; the price is the one the client sends
ProductEntries ==
  [relId : RelIds, code : DOMAIN SeedProducts, price : {1}, quantity : 0..MaxQuantity]

\* the products of a request body: up to two lines with a relId each, and
\* one body with a product code the store does not have
ProductLists ==
  {<<>>, <<[relId |-> "r1", code |-> "Z", price |-> 1, quantity |-> 1]>>}
    \cup {<<e>> : e \in ProductEntries}
    \cup {<<p[1], p[2]>> : p \in {q \in ProductEntries \X ProductEntries : q[1].relId # q[2].relId}}

\* request bodies of editTransaction: products may be left out
EditBodies ==
  {[given |-> FALSE, products |-> <<>>]}
    \cup {[given |-> TRUE, products |-> p] : p \in ProductLists}

\* request bodies of createTransaction
CreateBodies == {[given |-> TRUE, products |-> p] : p \in ProductLists}

RECURSIVE SumProducts(_, _)
\* products.reduce((sum, current) => sum += current.quantity *
\* productsCodeOnPrice[current.product.code], 0), from entry i on
SumProducts(products, i) ==
  IF i > Len(products) THEN 0
  ELSE products[i].quantity * SeedProducts[products[i].code]
         + SumProducts(products, i + 1)

\* Math.ceil((11 / 111) * total): for the totals an INTEGER column holds the
\* product in double precision lies on the same side of every integer as
\* 11 * total / 111 does
Tax(total) == (11 * total + 110) \div 111

\* Math.floor((100 / 111) * total)
Dpp(total) == (100 * total) \div 111

\* countSums
CountSums(body) ==
  IF ~body.given
    THEN [success |-> TRUE, result |-> [total |-> 0, tax |-> 0, dpp |-> 0]]
  ELSE IF \E i \in 1..Len(body.products) : body.products[i].code \notin DOMAIN SeedProducts
    THEN [success |-> FALSE, result |-> [total |-> 0, tax |-> 0, dpp |-> 0]]
  ELSE LET total == SumProducts(body.products, 1)
       IN [success |-> TRUE,
           result |-> [total |-> total, tax |-> Tax(total), dpp |-> Dpp(total)]]

\* the row of products_on_transactions an entry of the body is written as
Line(entry) == [relId |-> entry.relId, code |-> entry.code, quantity |-> entry.quantity]

\* the primary key rel_id and the unique index on (product_code,
\* transaction_id)
LinesValid(lines) ==
  \A k, l \in lines : (k.relId = l.relId \/ k.code = l.code) => k = l

RECURSIVE Upsert(_, _, _)
\* products.upsert of the update, entry by entry from entry i on: the lines
\* afterwards, or the failure of a constraint
Upsert(lines, products, i) ==
  IF i > Len(products) THEN [ok |-> TRUE, lines |-> lines]
  ELSE LET entry == products[i]
           next == {l \in lines : l.relId # entry.relId} \cup {Line(entry)}
       IN IF LinesValid(next) THEN Upsert(next, products, i + 1)
          ELSE [ok |-> FALSE, lines |-> lines]

\* writes to the transaction table so far
TxWrites == tx["t1"].ver

\* JSON.stringify(formattedResult)
CachedTransaction(row) ==
  [total |-> row.total, tax |-> row.tax, dpp |-> row.dpp, ver |-> row.ver]

\* makeCacheKey(queryKeys.transaction, id)
TransactionKey(id) == "transaction:" \o id

\* queryKeys.transaction
TransactionQueries == "transaction"

\* createTransaction from the parse of the body to prisma.transaction.create
CreateTransaction(r, body) ==
  /\ Free(r)
  /\ \E id \in TxIds :
       /\ ~tx[id].there
       /\ LET sums == CountSums(body)
              lines == {Line(body.products[i]) : i \in 1..Len(body.products)}
              rec == [IdleReq EXCEPT !.op = "createTransaction", !.sub = id,
                        !.body = body]
          IN IF ~sums.success
             THEN /\ req' = [req EXCEPT ![r] =
                      Respond(rec, 400,
                        "one or more of supplied product code does not exist in database")]
                  /\ tx' = tx
             ELSE IF Cardinality(lines) # Len(body.products) \/ ~LinesValid(lines)
             THEN /\ req' = [req EXCEPT ![r] = ErrorHandler(rec, "PrismaError")]
                  /\ tx' = tx
             ELSE /\ req' = [req EXCEPT ![r] = [rec EXCEPT !.pc = "invalidate"]]
                  /\ tx' = [tx EXCEPT ![id] =
                              [there |-> TRUE, lines |-> lines,
                               total |-> sums.result.total, tax |-> sums.result.tax,
                               dpp |-> sums.result.dpp, ver |-> 1]]
  /\ UNCHANGED <<cache, minted, now, inflight, faults, issued, expelled, revoked,
                 csrfVars, queryVars, users>>

\* createTransaction: `await invalidateCachedQueries(queryKeys.transaction)`
\* and the response
CreateTransactionInvalidate(r) ==
  /\ req[r].op = "createTransaction" /\ req[r].pc = "invalidate"
  /\ \E up \in FaultChoices :
       /\ CountFault(up)
       /\ inflight' = inflight \cup InvalidateCachedQueries(r, TransactionQueries, up)
       /\ req' = [req EXCEPT ![r] =
                    Respond([@ EXCEPT !.fault = ~up, !.ran = TRUE], 201, "transaction saved")]
  /\ UNCHANGED <<cache, minted, now, issued, expelled, revoked, csrfVars, queryVars,
                 storeVars>>

\* editTransaction from the parse of the body to countSums: the lines it
\* will delete are those of the row it has read; the product table does not
\* change, so countSums gives what it would give at any later moment
EditTransaction(r, id, body) ==
  /\ Free(r)
  /\ LET currentTransaction == tx[id]
         inputProductsRelIds == {body.products[i].relId : i \in 1..Len(body.products)}
         deletedProducts ==
           {entry \in currentTransaction.lines :
              ~(body.given /\ entry.relId \in inputProductsRelIds)}
         newSums == CountSums(body)
         rec == [IdleReq EXCEPT !.op = "editTransaction", !.sub = id, !.body = body,
                   !.snap = {entry.relId : entry \in deletedProducts}]
     IN req' = [req EXCEPT ![r] =
          IF ~currentTransaction.there
            THEN Respond(rec, 404, "transaction with supplied id not found")
          ELSE IF ~newSums.success
            THEN Respond(rec, 400,
                   "one or more of supplied product code does not exist in database")
          ELSE [rec EXCEPT !.pc = "update"]]
  /\ UNCHANGED <<cache, minted, now, inflight, faults, issued, expelled, revoked,
                 csrfVars, queryVars, storeVars>>

\* editTransaction: prisma.transaction.update, with the sums, the deleteMany
\* and the upserts in one database transaction
EditTransactionUpdate(r) ==
  /\ req[r].op = "editTransaction" /\ req[r].pc = "update"
  /\ TxWrites < MaxTxWrites
  /\ LET id == req[r].sub
         newSums == CountSums(req[r].body)
         kept == {l \in tx[id].lines : l.relId \notin req[r].snap}
         after == Upsert(kept, req[r].body.products, 1)
     IN IF after.ok
        THEN /\ tx' = [tx EXCEPT ![id] =
                         [@ EXCEPT !.lines = after.lines,
                            !.total = newSums.result.total, !.tax = newSums.result.tax,
                            !.dpp = newSums.result.dpp, !.ver = TxWrites + 1]]
             /\ req' = [req EXCEPT ![r] = [@ EXCEPT !.pc = "invalidate", !.ran = TRUE]]
        ELSE /\ tx' = tx
             /\ req' = [req EXCEPT ![r] = ErrorHandler(@, "PrismaError")]
  /\ UNCHANGED <<cache, minted, now, inflight, faults, issued, expelled, revoked,
                 csrfVars, queryVars, users>>

\* editTransaction: `await invalidateCachedQueries(queryKeys.transaction)`,
\* the write of the row to the cache, not awaited, and the response
EditTransactionInvalidate(r) ==
  /\ req[r].op = "editTransaction" /\ req[r].pc = "invalidate"
  /\ \E up \in FaultChoices :
       /\ CountFault(up)
       /\ inflight' = inflight
            \cup InvalidateCachedQueries(r, TransactionQueries, up)
            \cup {Call(r, "set", TransactionKey(req[r].sub),
                       CachedTransaction(tx[req[r].sub]), DurationShort)}
       /\ req' = [req EXCEPT ![r] = Respond([@ EXCEPT !.fault = ~up], 200, "transaction updated")]
  /\ UNCHANGED <<cache, minted, now, issued, expelled, revoked, csrfVars, queryVars,
                 storeVars>>

NextTx ==
  \/ UNCHANGED <<csrfVars, storeVars>> /\ \E r \in Reqs : QueryRetire(r)
  \/ ~Settling /\ faults' = faults /\ \E r \in Reqs, body \in CreateBodies :
                    CreateTransaction(r, body)
  \/ ~Settling /\ faults' = faults /\ \E r \in Reqs : CreateTransactionInvalidate(r)
  \/ ~Settling /\ faults' = faults /\ \E r \in Reqs, id \in TxIds, body \in EditBodies :
                    EditTransaction(r, id, body)
  \/ ~Settling /\ faults' = faults /\ \E r \in Reqs : EditTransactionUpdate(r)
  \/ ~Settling /\ faults' = faults /\ \E r \in Reqs : EditTransactionInvalidate(r)
  \/ UNCHANGED <<csrfVars, queryVars, storeVars>> /\ ~Settling /\ faults' = faults
       /\ \E o \in inflight : ApplyCall(o)

SpecTx == Init /\ [][NextTx]_vars

\* C39: an update by editTransaction whose body leaves products out changes
\* neither the product lines of the transaction nor its total, tax and dpp.
C39_ProductsKept ==
  [][\A r \in Reqs :
       (/\ req[r].op = "editTransaction" /\ req[r].pc = "update"
        /\ req'[r].pc = "invalidate"
        /\ ~req[r].body.given) =>
         /\ tx'[req[r].sub].lines = tx[req[r].sub].lines
         /\ tx'[req[r].sub].total = tx[req[r].sub].total
         /\ tx'[req[r].sub].tax = tx[req[r].sub].tax
         /\ tx'[req[r].sub].dpp = tx[req[r].sub].dpp]_vars

RECURSIVE SumLines(_)
\* the reference total of a set of product lines over the store's prices
SumLines(lines) ==
  IF lines = {} THEN 0
  ELSE LET l == CHOOSE x \in lines : TRUE
       IN l.quantity * SeedProducts[l.code] + SumLines(lines \ {l})

\* C40: every transaction in the table holds total = the sum over its product
\* lines of quantity times the store price of the line's product,
\* tax = ceil(11 total / 111) and dpp = floor(100 total / 111), and so
\* tax + dpp = total.
C40_StoredFigures ==
  \A id \in TxIds :
    tx[id].there =>
      /\ tx[id].total = SumLines(tx[id].lines)
      /\ 111 * (tx[id].tax - 1) < 11 * tx[id].total
      /\ 11 * tx[id].total <= 111 * tx[id].tax
      /\ 111 * tx[id].dpp <= 100 * tx[id].total
      /\ 100 * tx[id].total < 111 * (tx[id].dpp + 1)
      /\ tx[id].tax + tx[id].dpp = tx[id].total

====
